---------------------------- MODULE Spec2Model ----------------------------
(***************************************************************************)
(* A model of kr.dev/diff: the parallel tree walker (differ.walk and its   *)
(* helpers in diff.go), the options that configure it (option.go) and the  *)
(* edit-script compaction of internal/diffseq.                             *)
(*                                                                         *)
(* Go values are records with a kind field k and a type name t.            *)
(* References (pointers, slices, maps, funcs, chans) hold an address p     *)
(* into a heap; address 0 is nil.  A comparison session (a differ) is the  *)
(* record s: its config, its two visit tables, what reached its sink, and  *)
(* the heap with the values transforms have allocated.  The walker is a    *)
(* recursive function of the session; a call stack deeper than StackLimit  *)
(* ends the run in the state "overflow" (the Go runtime's fatal stack      *)
(* overflow), which is how a descent that never returns shows up.          *)
(***************************************************************************)
EXTENDS Integers, Sequences, FiniteSets, TLC

VARIABLES
    pc,      \* "start" before the entry point ran, "done" after
    heap,    \* the heap both inputs live in: address -> object
    a,       \* the first input (got)
    b,       \* the second input (want)
    opts,    \* the caller's options, in the order given
    res,     \* the session after the walk (sink output, visit tables, status)
    seqA,    \* diffseq: sequence A
    seqB,    \* diffseq: sequence B
    script,  \* diffseq: the edit.Script handed to merge
    edits    \* diffseq: the Edits returned

vars == <<pc, heap, a, b, opts, res, seqA, seqB, script, edits>>

(***************************************************************************)
(* Bounds of the model.                                                    *)
(***************************************************************************)
StackLimit == 9    \* nested walk calls before the stack is exhausted
MaxNodes == 2      \* nodes per side in the graph inputs
MaxLen == 3        \* longest sequence handed to diffseq
MaxKeys == 2       \* entries per map in the map inputs
MaxLines == 5      \* lines per text in the text inputs
MaxElems == 22     \* items per container in the rendering inputs

(***************************************************************************)
(* Constants of the program.                                               *)
(***************************************************************************)
nContext == 3      \* lines of context around the edits of a hunk
ShortLen == 20     \* strings shorter than this are shown whole
LineMin == 2       \* a text has at least this many lines ...
LineAvg == 72      \* ... of at most this many bytes on average
WordMin == 3       \* a phrase has at least this many words ...
WordAvg == 10      \* ... of at most this many bytes on average
ShortMax == 20     \* items of a container shown by a short rendering
ShortDepth == 2    \* allowDepth of formatShort
FullDepth == 100000000  \* allowDepth of formatFull

(***************************************************************************)
(* Values.                                                                 *)
(***************************************************************************)
Invalid == [k |-> "invalid"]
BoolV(x) == [k |-> "bool", t |-> "bool", v |-> x]
IntV(n) == [k |-> "int", t |-> "int", v |-> n]
FloatV(n, isNaN) == [k |-> "float", t |-> "float64", v |-> n, nan |-> isNaN]
NaN == FloatV(0, TRUE)
\* A string is the sequence of its bytes; "0xff" is a byte that is not UTF-8.
StringV(x) == [k |-> "string", t |-> "string", v |-> x]
StructV(t, fs) == [k |-> "struct", t |-> t, f |-> fs]
ArrayV(t, es) == [k |-> "array", t |-> t, e |-> es]
PtrV(t, p) == [k |-> "ptr", t |-> t, p |-> p]
SliceV(t, p, n) == [k |-> "slice", t |-> t, p |-> p, n |-> n]
MapV(t, p) == [k |-> "map", t |-> t, p |-> p]
FuncV(t, p) == [k |-> "func", t |-> t, p |-> p]
ChanV(t, p) == [k |-> "chan", t |-> t, p |-> p]
IfaceV(e) == [k |-> "iface", t |-> "any", e |-> e]
TimeV(wall, mono, loc) == StructV("time.Time", <<IntV(wall), IntV(mono), IntV(loc)>>)

IsValid(v) == v.k # "invalid"
IsNil(v) == v.p = 0

\* t.Field(i).Name for the struct types of the model.
FieldNames(t) ==
    CASE t = "T" -> <<"N", "P", "K", "M">>
      [] t = "C" -> <<"A", "B">>
      [] t = "W" -> <<"X">>
      [] t = "S2" -> <<"X", "Y">>
      [] t = "time.Time" -> <<"wall", "ext", "loc">>
      [] t = "struct{}" -> <<>>
      [] t = "U" -> <<"x">>
      [] OTHER -> <<"F0", "F1", "F2", "F3">>

\* reflect.Zero(fv.Type()) of a field holding v.
ZeroOf(v) ==
    CASE v.k = "int" -> [v EXCEPT !.v = 0]
      [] v.k = "float" -> [v EXCEPT !.v = 0, !.nan = FALSE]
      [] v.k = "bool" -> [v EXCEPT !.v = FALSE]
      [] v.k = "string" -> [v EXCEPT !.v = <<>>]
      [] v.k \in {"ptr", "map", "func", "chan"} -> [v EXCEPT !.p = 0]
      [] v.k = "slice" -> [v EXCEPT !.p = 0, !.n = 0]
      [] v.k = "iface" -> [v EXCEPT !.e = Invalid]
      [] OTHER -> v

\* The elements a slice or an array holds, as.Index(0) .. as.Index(Len-1).
Elems(h, v) ==
    IF v.k = "array" THEN v.e
    ELSE IF v.p = 0 THEN <<>>
    ELSE SubSeq(h[v.p], 1, v.n)

(***************************************************************************)
(* Options and the configuration they build.                               *)
(***************************************************************************)
Opt(o, t, f, x) == [o |-> o, t |-> t, f |-> f, x |-> x]
Fn(name, names) == [fn |-> name, names |-> names]
NoFn == Fn("", {})

EmitAuto == Opt("verbosity", "", NoFn, "auto")
EmitPathOnly == Opt("verbosity", "", NoFn, "pathOnly")
EmitFull == Opt("verbosity", "", NoFn, "full")
ShowOriginal == Opt("ShowOriginal", "", NoFn, "")
EqualFuncs(x) == Opt("EqualFuncs", "", NoFn, IF x THEN "true" ELSE "false")
Transform(t, f) == Opt("Transform", t, f, "")
TransformRemove(t) == Opt("TransformRemove", t, NoFn, "")
Format(t, f) == Opt("Format", t, f, "")
FormatRemove(t) == Opt("FormatRemove", t, NoFn, "")
Logger(out) == Opt("Logger", "", NoFn, out)
TimeEqual == Transform("time.Time", Fn("TimeEqual", {}))
EqualNaN == Transform("float64", Fn("EqualNaN", {}))
TimeDelta == Format("time.Time", Fn("TimeDelta", {}))
ZeroFields(t, names) == Transform(t, Fn("ZeroFields", names))
KeepFields(t, names) == Transform(t, Fn("KeepFields", names))

Default == <<EmitAuto, TimeEqual, TimeDelta, Logger("log.Default")>>

\* A call of an option constructor that checks its arguments, as written
\* in the argument list of Each, Log or Test: ZeroFields[T](names...),
\* KeepFields[T](names...), KeepExported[T]().
Call(ctor, t, names) == Opt(ctor, t, Fn(ctor, names), "")

\* f.IsExported() for the field names of the model.
IsExported(name) == name \notin {"wall", "ext", "loc", "x"}

\* The exported fields KeepExported collects.
ExportedFields(t) ==
    {FieldNames(t)[i] : i \in {j \in DOMAIN FieldNames(t) : IsExported(FieldNames(t)[j])}}

\* checkFieldsExist passing as soon as one of the names is a field.
checkFieldsExist_Any(t, names) ==
    names = {} \/ \E name \in names : \E i \in DOMAIN FieldNames(t) : FieldNames(t)[i] = name

\* checkFieldsExist: FALSE where it panics.
checkFieldsExist(t, names) ==
    \A name \in names : \E i \in DOMAIN FieldNames(t) : FieldNames(t)[i] = name

\* Whether the constructor called returns; it panics otherwise.
Returns(c) ==
    CASE c.o \in {"ZeroFields", "KeepFields"} -> checkFieldsExist(c.t, c.f.names)
      [] c.o = "KeepExported" ->
           ExportedFields(c.t) # {} /\ checkFieldsExist(c.t, ExportedFields(c.t))
      [] OTHER -> TRUE

\* The option the constructor called returns.
Construct(c) ==
    CASE c.o = "ZeroFields" -> ZeroFields(c.t, c.f.names)
      [] c.o = "KeepFields" -> KeepFields(c.t, c.f.names)
      [] c.o = "KeepExported" -> KeepFields(c.t, ExportedFields(c.t))
      [] OTHER -> c

\* delete(m, t) on a map held as a function.
MapDelete(m, t) == [x \in DOMAIN m \ {t} |-> m[x]]
MapSet(m, t, f) == [x \in DOMAIN m \cup {t} |-> IF x = t THEN f ELSE m[x]]

\* o.apply(c) for one option.
ApplyOption(c, o) ==
    CASE o.o = "verbosity" -> [c EXCEPT !.level = o.x]
      [] o.o = "ShowOriginal" -> [c EXCEPT !.showOrig = TRUE]
      [] o.o = "EqualFuncs" -> [c EXCEPT !.equalFuncs = (o.x = "true")]
      [] o.o = "Transform" -> [c EXCEPT !.xform = MapSet(c.xform, o.t, o.f)]
      [] o.o = "TransformRemove" -> [c EXCEPT !.xform = MapDelete(c.xform, o.t)]
      [] o.o = "Format" -> [c EXCEPT !.format = MapSet(c.format, o.t, o.f)]
      [] o.o = "FormatRemove" -> [c EXCEPT !.format = MapDelete(c.format, o.t)]
      [] o.o = "Logger" -> [c EXCEPT !.output = o.x]

RECURSIVE OptionList(_, _)
\* OptionList(opt...).apply(c): the options applied from left to right.
OptionList(c, os) ==
    IF os = <<>> THEN c ELSE OptionList(ApplyOption(c, Head(os)), Tail(os))

\* newDiffer with the defaults applied after the caller's options.
NewConfig_DefaultsLast(os) ==
    LET c0 == [level |-> "auto", equalFuncs |-> FALSE, xform |-> <<>>,
               showOrig |-> FALSE, format |-> <<>>, output |-> "",
               inTest |-> FALSE, aLabel |-> "a", bLabel |-> "b"]
    IN OptionList(OptionList(c0, os), Default)

\* newDiffer: the zero config, then the defaults, then the caller's options.
NewConfig(os) ==
    LET c0 == [level |-> "auto", equalFuncs |-> FALSE, xform |-> <<>>,
               showOrig |-> FALSE, format |-> <<>>, output |-> "",
               inTest |-> FALSE, aLabel |-> "a", bLabel |-> "b"]
    IN OptionList(OptionList(c0, Default), os)

\* A differ: config and fresh visit tables.  With it go the calls of its
\* sink (out), the status of the run (st), the heap and the next free
\* address, and a log with one entry per call of walk: its depth, the
\* pair it was given, the length of out when it was entered (n) and when
\* it returned (m), and the calls of walk made below it (sub); and the
\* calls of format functions (hooks), each with the function and the pair.
NewDiffer(c, h, nx) ==
    [cfg |-> c, aSeen |-> <<>>, bSeen |-> <<>>, out |-> <<>>, st |-> "ok",
     log |-> <<>>, hooks |-> <<>>, heap |-> h, next |-> nx]

(***************************************************************************)
(* The emitter: root type, path, and the pair last set on it.              *)
(***************************************************************************)
PE(x, name, i, j, key) == [s |-> x, name |-> name, i |-> i, j |-> j, key |-> key]
PXform == PE("(transformed)", "", 0, 0, Invalid)
POrig == PE("(original)", "", 0, 0, Invalid)
PField(name) == PE(".", name, 0, 0, Invalid)
PIndex(i) == PE("[i]", "", i, 0, Invalid)
PRange(i, j) == PE("[i:j]", "", i, j, Invalid)
PKey(key) == PE("[k]", "", 0, 0, key)

NewEmitter == [root |-> "", path |-> <<>>, av |-> Invalid, bv |-> Invalid]

\* e.set(av, bv)
Set(e, av, bv) == [e EXCEPT !.av = av, !.bv = bv]

\* e.subf(t, format, arg...): the root type is fixed by the first call.
Subf(e, t, pe) ==
    [root |-> IF e.root = "" THEN t ELSE e.root,
     path |-> Append(e.path, pe), av |-> Invalid, bv |-> Invalid]

\* What one call of the sink receives, by verbosity level.
SinkCall(c, e, msg, args) ==
    CASE c.level = "auto" ->
           [root |-> e.root, path |-> e.path, msg |-> msg, args |-> args]
      [] c.level = "pathOnly" ->
           [root |-> e.root, path |-> e.path, msg |-> "", args |-> <<>>]
      [] c.level = "full" ->
           [root |-> IF e.root # "" THEN e.root
                     ELSE IF c.inTest THEN "any" ELSE "",
            path |-> e.path, msg |-> "full", args |-> <<e.av, e.bv>>]

\* e.emitf(format, arg...): one call of the session's sink.
Emitf(s, e, msg, args) ==
    [s EXCEPT !.out = Append(@, SinkCall(s.cfg, e, msg, args))]

(***************************************************************************)
(* The cycle check of walk.                                                *)
(***************************************************************************)
Visit(v) == <<v.p, v.t>>

\* A cycle check that looks for the pair in aSeen alone.
CycleCheck_ASeenOnly(s, av, bv) ==
    IF av.k \notin {"ptr", "map", "slice"} THEN "break"
    ELSE IF IsNil(av) \/ IsNil(bv) THEN "break"
    ELSE IF Visit(av) \in DOMAIN s.aSeen
         THEN IF s.aSeen[Visit(av)] # Visit(bv) THEN "uneven" ELSE "silent"
    ELSE "record"

\* "break": not a nilable reference pair, go on without recording;
\* "silent": the pair was seen, return; "uneven": emit and return;
\* "record": enter the pair in both tables and go on.
CycleCheck(s, av, bv) ==
    IF av.k \notin {"ptr", "map", "slice"} THEN "break"
    ELSE IF IsNil(av) \/ IsNil(bv) THEN "break"
    ELSE IF Visit(av) \in DOMAIN s.aSeen
         THEN IF s.aSeen[Visit(av)] # Visit(bv) THEN "uneven" ELSE "silent"
    ELSE IF Visit(bv) \in DOMAIN s.bSeen THEN "uneven"
    ELSE "record"

Record(s, av, bv) ==
    [s EXCEPT !.aSeen = MapSet(@, Visit(av), Visit(bv)),
              !.bSeen = MapSet(@, Visit(bv), Visit(av))]


(***************************************************************************)
(* Transform functions: reflectApply(xf, v).Elem(), made addressable.      *)
(* The result is the replacement value and the session, whose heap holds   *)
(* whatever the function allocated.                                        *)
(***************************************************************************)
PtrType(t) ==
    CASE t = "T" -> "*T"
      [] t = "C" -> "*C"
      [] t = "int" -> "*int"
      [] t = "float64" -> "*float64"
      [] OTHER -> "*any"

Alloc(s, obj) ==
    [s EXCEPT !.heap = [x \in DOMAIN s.heap \cup {s.next} |->
                            IF x = s.next THEN obj ELSE s.heap[x]],
              !.next = s.next + 1]

\* ZeroFields with its test inverted: the named fields are the ones kept.
ZeroNamed_Inverted(v, names) ==
    [v EXCEPT !.f = [i \in DOMAIN v.f |->
        IF FieldNames(v.t)[i] \in names THEN v.f[i] ELSE ZeroOf(v.f[i])]]

\* ZeroFields: a copy with the named fields set to their zero values.
ZeroNamed(v, names) ==
    [v EXCEPT !.f = [i \in DOMAIN v.f |->
        IF FieldNames(v.t)[i] \in names THEN ZeroOf(v.f[i]) ELSE v.f[i]]]

\* KeepFields: a zero T with the named fields copied over.
KeepNamed(v, names) ==
    [v EXCEPT !.f = [i \in DOMAIN v.f |->
        IF FieldNames(v.t)[i] \in names THEN v.f[i] ELSE ZeroOf(v.f[i])]]

ApplyXform(f, v, s) ==
    CASE f.fn = "TimeEqual" ->   \* t.Round(0).UTC()
           [v |-> [v EXCEPT !.f = <<v.f[1], IntV(0), IntV(0)>>], s |-> s]
      [] f.fn = "EqualNaN" ->
           [v |-> IF v.nan THEN StructV("equalNaN", <<>>) ELSE v, s |-> s]
      [] f.fn = "ZeroFields" -> [v |-> ZeroNamed(v, f.names), s |-> s]
      [] f.fn = "KeepFields" -> [v |-> KeepNamed(v, f.names), s |-> s]
      [] f.fn = "Const0" -> [v |-> IntV(0), s |-> s]   \* func(v int) any { return 0 }
      [] f.fn = "Same" -> [v |-> v, s |-> s]           \* func(v T) any { return v }
      [] f.fn = "Nil" -> [v |-> Invalid, s |-> s]      \* func(v T) any { return nil }
      [] f.fn = "Wrap" -> [v |-> StructV("W", <<v>>), s |-> s]
                                         \* func(v T) any { return struct{ X T }{v} }
      [] f.fn = "ToPtr" -> [v |-> PtrV(PtrType(v.t), s.next), s |-> Alloc(s, v)]
                                         \* func(v T) any { return &v }

(***************************************************************************)
(* Map keys: MapIndex and sortedKeys.  A map object is its entries in      *)
(* iteration order.  A NaN key equals no key, itself included.             *)
(***************************************************************************)
IsNaNKey(key) == key.k = "float" /\ key.nan

KeyEq(x, y) == x = y /\ ~IsNaNKey(x)

\* m.MapIndex(k): the zero Value when k is not found.
MapIndex(h, m, key) ==
    IF m.p = 0 THEN Invalid
    ELSE LET hit == {i \in DOMAIN h[m.p] : KeyEq(h[m.p][i].key, key)}
         IN IF hit = {} THEN Invalid ELSE h[m.p][CHOOSE i \in hit : TRUE].val

\* fmtsort's order on keys of one type: NaN before every number.
KeyLess(x, y) ==
    IF x.k = "float"
    THEN (x.nan /\ ~y.nan) \/ (~x.nan /\ ~y.nan /\ x.v < y.v)
    ELSE x.v < y.v

RECURSIVE MergeKeys(_, _)
\* merged.SetMapIndex(key, true) for every key of the entries: an equal key
\* is overwritten, a NaN key is always a new entry.
MergeKeys(merged, entries) ==
    IF entries = <<>> THEN merged
    ELSE LET key == Head(entries).key
         IN MergeKeys(IF \E i \in DOMAIN merged : KeyEq(merged[i], key)
                      THEN merged ELSE Append(merged, key),
                      Tail(entries))

RECURSIVE SortKeys(_)
\* fmtsort.Sort(merged).Key: a stable sort by KeyLess.
SortKeys(ks) ==
    IF ks = <<>> THEN <<>>
    ELSE LET m == CHOOSE i \in DOMAIN ks :
                    /\ \A j \in DOMAIN ks : ~KeyLess(ks[j], ks[i])
                    /\ \A j \in 1..(i - 1) : KeyLess(ks[i], ks[j])
             rest == [j \in 1..(Len(ks) - 1) |-> IF j < m THEN ks[j] ELSE ks[j + 1]]
         IN <<ks[m]>> \o SortKeys(rest)

sortedKeys(h, av, bv) ==
    SortKeys(MergeKeys(MergeKeys(<<>>, h[av.p]), h[bv.p]))

(***************************************************************************)
(* internal/diffseq: merge.                                                *)
(***************************************************************************)
Range(la, ha, lb, hb) == [LowA |-> la, HighA |-> ha, LowB |-> lb, HighB |-> hb]
Edit(a0, a1, b0, b1) == [A0 |-> a0, A1 |-> a1, B0 |-> b0, B1 |-> b1]

\* edit.Range.Op
Op(r) ==
    IF r.LowA = r.HighA THEN "Ins"
    ELSE IF r.LowB = r.HighB THEN "Del"
    ELSE "Eq"

\* merge's loop without needNext = true in the Eq case.
MergeStep_NoReset(m, r) ==
    LET needNext == m[1]
        es == m[2]
        n == Len(es)
    IN CASE Op(r) = "Eq" -> <<needNext, es>>
         [] Op(r) = "Del" ->
              IF needNext
              THEN <<FALSE, Append(es, Edit(r.LowA, r.HighA, r.LowB, r.HighB))>>
              ELSE <<FALSE, [es EXCEPT ![n].A1 = r.HighA]>>
         [] Op(r) = "Ins" ->
              IF needNext
              THEN <<FALSE, Append(es, Edit(r.LowA, r.HighA, r.LowB, r.HighB))>>
              ELSE <<FALSE, [es EXCEPT ![n].B1 = r.HighB]>>

\* One iteration of merge's loop; m is <<needNext, es>>.
MergeStep(m, r) ==
    LET needNext == m[1]
        es == m[2]
        n == Len(es)
    IN CASE Op(r) = "Eq" -> <<TRUE, es>>
         [] Op(r) = "Del" ->
              IF needNext
              THEN <<FALSE, Append(es, Edit(r.LowA, r.HighA, r.LowB, r.HighB))>>
              ELSE <<FALSE, [es EXCEPT ![n].A1 = r.HighA]>>
         [] Op(r) = "Ins" ->
              IF needNext
              THEN <<FALSE, Append(es, Edit(r.LowA, r.HighA, r.LowB, r.HighB))>>
              ELSE <<FALSE, [es EXCEPT ![n].B1 = r.HighB]>>

RECURSIVE MergeLoop(_, _)
MergeLoop(m, ranges) ==
    IF ranges = <<>> THEN m ELSE MergeLoop(MergeStep(m, Head(ranges)), Tail(ranges))

merge(ranges) == MergeLoop(<<TRUE, <<>> >>, ranges)[2]


\* v.Convert(reflectString) of a byte slice: the string of its bytes.
Convert(es) == [i \in DOMAIN es |-> es[i].v]

(***************************************************************************)
(* The walker.  Walk, the loops it runs and the side sessions it starts    *)
(* (equal, itemEq as called back from the Myers search of diffseq.Diff)    *)
(* are mutually recursive; d is the depth of the call stack.               *)
(***************************************************************************)
Overflow(s) == [s EXCEPT !.st = "overflow"]

\* a != b of eqtest on the values of two scalars of one type.
ScalarNe(av, bv) ==
    IF av.k = "float" THEN av.nan \/ bv.nan \/ av.v # bv.v
    ELSE av.v # bv.v

\* eqtest with its test inverted: one emission when a == b.
eqtest_Inverted(s, e, av, bv) ==
    IF ScalarNe(av, bv) THEN s ELSE Emitf(s, e, "%v != %v", <<av, bv>>)

\* eqtest: one emission when a != b.
eqtest(s, e, av, bv) ==
    IF ScalarNe(av, bv) THEN Emitf(s, e, "%v != %v", <<av, bv>>) ELSE s

emitPointers(s, e, av, bv) == Emitf(s, e, "%v != %v", <<av, bv>>)

\* The Func case comparing the functions as pointers, as for channels.
WalkFunc_ByPointer(s, e, av, bv) ==
    IF s.cfg.equalFuncs THEN s
    ELSE IF av.p # bv.p THEN emitPointers(s, e, av, bv)
    ELSE s

\* The Func case of walk.
WalkFunc(s, e, av, bv) ==
    IF s.cfg.equalFuncs THEN s
    ELSE IF ~IsNil(av) \/ ~IsNil(bv) THEN emitPointers(s, e, av, bv)
    ELSE s

\* The Chan and UnsafePointer case of walk.
WalkChan(s, e, av, bv) ==
    IF av.p # bv.p THEN emitPointers(s, e, av, bv) ELSE s

\* A validity check that returns only when both sides are valid: two invalid
\* sides count as a mismatch.
ShapeCheck_AnyInvalid(av, bv) ==
    IF ~IsValid(av) \/ ~IsValid(bv) THEN "mismatch"
    ELSE IF av.t # bv.t THEN "mismatch"
    ELSE "same"

\* The validity and type check that opens walk: "none" when both sides
\* are invalid, "mismatch" when one is or the types differ, else "same".
ShapeCheck(av, bv) ==
    IF ~IsValid(av) /\ ~IsValid(bv) THEN "none"
    ELSE IF ~IsValid(av) \/ ~IsValid(bv) THEN "mismatch"
    ELSE IF av.t # bv.t THEN "mismatch"
    ELSE "same"

\* What walk does at a map key, from the validity of the two values there.
KeyCase(ak, bk) ==
    IF IsValid(ak) /\ IsValid(bk) THEN "both"
    ELSE IF IsValid(ak) THEN "removed"
    ELSE "added"

\* The early exit of the Slice case on the base address alone.
SliceSame_PointerOnly(av, bv) == av.p = bv.p

\* The early exits of the Slice case before the items are compared.
SliceSame(av, bv) == av.n = bv.n /\ av.p = bv.p

\* Which way walk goes on a pair: the outcome of its shape check when that
\* ends it, "silent" or "uneven" when the cycle check does, else the first
\* of the transform hook, the format hook and the switch on the kind that
\* applies.
Route(s, av, bv, xformOk) ==
    IF ShapeCheck(av, bv) # "same" THEN ShapeCheck(av, bv)
    ELSE IF CycleCheck(s, av, bv) \in {"silent", "uneven"} THEN CycleCheck(s, av, bv)
    ELSE IF xformOk /\ av.t \in DOMAIN s.cfg.xform THEN "xform"
    ELSE IF av.t \in DOMAIN s.cfg.format THEN "format"
    ELSE "kind"

\* The session once the cycle check has let the pair through.
Seen(s, av, bv) ==
    IF CycleCheck(s, av, bv) = "record" THEN Record(s, av, bv) ELSE s

\* Entry and exit of a call of walk in the log.
Enter(s, av, bv, d) ==
    [s EXCEPT !.log = Append(@, [d |-> d, av |-> av, bv |-> bv,
                                 n |-> Len(s.out), m |-> Len(s.out), sub |-> 0])]

Leave(s, i) ==
    [s EXCEPT !.log[i].m = Len(s.out), !.log[i].sub = Len(s.log) - i]

RECURSIVE Walk(_, _, _, _, _, _), Checks(_, _, _, _, _, _),
          WalkXform(_, _, _, _, _), WalkFormat(_, _, _, _, _),
          WalkKind(_, _, _, _, _, _),
          WalkFields(_, _, _, _, _, _), WalkKeys(_, _, _, _, _, _),
          seqDiff(_, _, _, _, _), WalkEdits(_, _, _, _, _, _),
          WalkItems(_, _, _, _, _, _, _), equal(_, _, _, _, _),
          itemEq(_, _, _, _, _, _), Snake(_, _, _), SnakeStep(_, _, _, _),
          KLoop(_, _, _, _), KStep(_, _, _, _, _), DLoop(_, _, _, _),
          DStep(_, _, _, _, _), Script(_, _), Myers(_), Diff(_, _, _, _),
          stringDiff(_, _, _, _), Equal(_, _, _)

\* differ.walk at depth d of the call stack.
Walk(s, e0, av, bv, xformOk, d) ==
    CASE s.st # "ok" -> s
      [] s.st = "ok" /\ d > StackLimit -> Overflow(s)
      [] OTHER -> Leave(Checks(Enter(s, av, bv, d), Set(e0, av, bv),
                               av, bv, xformOk, d),
                        Len(s.log) + 1)

\* differ.walk: the shape check, the cycle check and the way on.
Checks(s, e, av, bv, xformOk, d) ==
    CASE Route(s, av, bv, xformOk) = "none" -> s
      [] Route(s, av, bv, xformOk) = "mismatch" -> Emitf(s, e, "%v != %v", <<av, bv>>)
      [] Route(s, av, bv, xformOk) = "silent" -> s
      [] Route(s, av, bv, xformOk) = "uneven" -> Emitf(s, e, "uneven cycle", <<>>)
      [] Route(s, av, bv, xformOk) = "xform" -> WalkXform(Seen(s, av, bv), e, av, bv, d)
      [] Route(s, av, bv, xformOk) = "format" -> WalkFormat(Seen(s, av, bv), e, av, bv, d)
      [] Route(s, av, bv, xformOk) = "kind" ->
           WalkKind(Seen(s, av, bv), e, av, bv, xformOk, d)

\* differ.walk: the transform hook, taken when transforms are permitted and
\* one is registered for the type.  s1 is the session after the walk of the
\* transformed pair; with showOrig the pair itself follows under "(original)".
WalkXform(s, e, av, bv, d) ==
    LET ax == ApplyXform(s.cfg.xform[av.t], av, s)
        bx == ApplyXform(s.cfg.xform[av.t], bv, ax.s)
        s1 == Walk(bx.s, Subf(e, av.t, PXform), ax.v, bx.v, FALSE, d + 1)
        eo == Subf(e, av.t, POrig)
        eq == equal(s1, av, bv, FALSE, d + 1)
    IN CASE s1.st # "ok" \/ ~s.cfg.showOrig -> s1
         [] s1.st = "ok" /\ s.cfg.showOrig /\ eq = "overflow" -> Overflow(s1)
         [] s1.st = "ok" /\ s.cfg.showOrig /\ eq = "eq" -> Emitf(s1, eo, "equal", <<>>)
         [] s1.st = "ok" /\ s.cfg.showOrig /\ eq = "ne" ->
              IF av.t \in DOMAIN s.cfg.format
              THEN WalkFormat(s1, eo, av, bv, d)
              ELSE WalkKind(s1, eo, av, bv, TRUE, d)

\* reflectApply(ff, av, bv): the call of the format function.
ApplyFormat(s, av, bv) ==
    [s EXCEPT !.hooks = Append(@, [fn |-> s.cfg.format[av.t], av |-> av, bv |-> bv])]

\* differ.walk: the format hook, taken when a format is registered for the type.
WalkFormat(s, e, av, bv, d) ==
    LET eq == equal(s, av, bv, FALSE, d + 1)
    IN CASE eq = "overflow" -> Overflow(s)
         [] eq = "ne" -> Emitf(ApplyFormat(s, av, bv), e, "%s", <<s.cfg.format[av.t], av, bv>>)
         [] eq = "eq" -> s

\* differ.walk: the switch on t.Kind().
WalkKind(s, e, av, bv, xformOk, d) ==
    CASE av.k = "array" -> seqDiff(s, e, av, bv, d)
      [] av.k = "struct" -> WalkFields(s, e, av, bv, 1, d)
      [] av.k = "func" -> WalkFunc(s, e, av, bv)
      [] av.k = "iface" ->
           Walk(s, e, av.e, bv.e, xformOk, d + 1)
      [] av.k = "map" ->
           IF IsNil(av) # IsNil(bv) THEN emitPointers(s, e, av, bv)
           ELSE IF av.p = bv.p THEN s
           ELSE WalkKeys(s, e, av, bv, sortedKeys(s.heap, av, bv), d)
      [] av.k = "ptr" ->
           IF av.p = bv.p THEN s
           ELSE IF IsNil(av) # IsNil(bv) THEN Emitf(s, e, "%v != %v", <<av, bv>>)
           ELSE Walk(s, e, s.heap[av.p], s.heap[bv.p],
                     TRUE, d + 1)
      [] av.k = "slice" ->
           IF IsNil(av) # IsNil(bv) THEN emitPointers(s, e, av, bv)
           ELSE IF SliceSame(av, bv) THEN s
           ELSE IF av.t = "[]byte"
                THEN stringDiff(s, e, Convert(Elems(s.heap, av)), Convert(Elems(s.heap, bv)))
           ELSE seqDiff(s, e, av, bv, d)
      [] av.k \in {"bool", "int", "float"} -> eqtest(s, e, av, bv)
      [] av.k = "string" -> stringDiff(s, e, av.v, bv.v)
      [] av.k = "chan" -> WalkChan(s, e, av, bv)

RECURSIVE WalkFields_StopAtCycle(_, _, _, _, _, _)
\* A Struct case that gives up the remaining fields once a field has
\* reported "uneven cycle".
WalkFields_StopAtCycle(s, e, av, bv, i, d) ==
    IF i > Len(av.f) \/ s.st # "ok" THEN s
    ELSE IF s.out # <<>> /\ s.out[Len(s.out)].msg = "uneven cycle" THEN s
    ELSE WalkFields_StopAtCycle(Walk(s, Subf(e, av.t, PField(FieldNames(av.t)[i])),
                                     av.f[i], bv.f[i], TRUE, d + 1),
                                e, av, bv, i + 1, d)

\* The Struct case: one walk per field, in declaration order.
WalkFields(s, e, av, bv, i, d) ==
    IF i > Len(av.f) \/ s.st # "ok" THEN s
    ELSE WalkFields(Walk(s, Subf(e, av.t, PField(FieldNames(av.t)[i])),
                         av.f[i], bv.f[i], TRUE, d + 1),
                    e, av, bv, i + 1, d)

\* The Map case: the loop over the sorted keys of both maps.
WalkKeys(s, e, av, bv, ks, d) ==
    IF ks = <<>> \/ s.st # "ok" THEN s
    ELSE LET key == Head(ks)
             ak == MapIndex(s.heap, av, key)
             bk == MapIndex(s.heap, bv, key)
             esub == Set(Subf(e, av.t, PKey(key)), ak, bk)
             kc == KeyCase(ak, bk)
             s1 == CASE kc = "both" ->
                          Walk(s, esub, ak, bk, TRUE, d + 1)
                     [] kc = "removed" -> Emitf(s, esub, "(removed)", <<>>)
                     [] kc = "added" -> Emitf(s, esub, "(added) %v", <<bk>>)
         IN WalkKeys(s1, e, av, bv, Tail(ks), d)

\* differ.equal: a side session with fresh visit tables, no format hooks
\* and a sink that counts.  "eq", "ne", or "overflow".
equal(s, av, bv, xformOk, d) ==
    LET c2 == [s.cfg EXCEPT !.format = <<>>]
        s2 == Walk(NewDiffer(c2, s.heap, s.next), NewEmitter, av, bv, xformOk, d)
    IN IF s2.st # "ok" THEN "overflow"
       ELSE IF Len(s2.out) = 0 THEN "eq" ELSE "ne"

\* differ.itemEq on items ai and bi (from 0) of the element lists.
itemEq(s, as, bs, ai, bi, d) == equal(s, as[ai + 1], bs[bi + 1], TRUE, d + 1)

(***************************************************************************)
(* diffseq.Diff: merge(myers.Diff(ctx, &pair{a, b, eq})).  The search is   *)
(* the greedy O(ND) one of the library, which asks eq about the items on   *)
(* the diagonals it follows; c is the pair: [s, as, bs, d].  Each loop is  *)
(* an operator that makes its call and a step that looks at the answer.    *)
(***************************************************************************)
\* slice.ItemEq: a[ai] == b[bi]
ItemEq(as, bs, ai, bi) == IF as[ai + 1] = bs[bi + 1] THEN "eq" ELSE "ne"

\* pair.Equal: the eq the pair was made with, differ.itemEq or slice.ItemEq.
Equal(c, x, y) ==
    IF c.eq = "ItemEq" THEN ItemEq(c.as, c.bs, x, y)
    ELSE itemEq(c.s, c.as, c.bs, x, y, c.d)

\* Follow a diagonal from (x, y) while the items are equal.
Snake(c, x, y) ==
    IF x < Len(c.as) /\ y < Len(c.bs)
    THEN SnakeStep(c, x, y, Equal(c, x, y))
    ELSE [x |-> x, ovf |-> FALSE]

\* r is what eq said about items x and y.
SnakeStep(c, x, y, r) ==
    IF r = "eq" THEN Snake(c, x + 1, y + 1)
    ELSE [x |-> x, ovf |-> (r = "overflow")]

\* The diagonals k = -dd, -dd+2, .. dd of one round.
KLoop(c, dd, k, v) ==
    IF k > dd THEN [v |-> v, done |-> FALSE, ovf |-> FALSE]
    ELSE LET x0 == IF k = -dd \/ (k # dd /\ v[k - 1] < v[k + 1])
                   THEN v[k + 1] ELSE v[k - 1] + 1
         IN KStep(c, dd, k, v, Snake(c, x0, x0 - k))

\* sn is how far diagonal k was followed.
KStep(c, dd, k, v, sn) ==
    IF sn.ovf THEN [v |-> v, done |-> FALSE, ovf |-> TRUE]
    ELSE IF sn.x = Len(c.as) /\ sn.x - k = Len(c.bs)
         THEN [v |-> [v EXCEPT ![k] = sn.x], done |-> TRUE, ovf |-> FALSE]
    ELSE KLoop(c, dd, k + 2, [v EXCEPT ![k] = sn.x])

\* The rounds dd = 0, 1, .. until the end of both sequences is reached.
DLoop(c, dd, v, trace) ==
    IF dd >= Len(c.as) + Len(c.bs) THEN [trace |-> trace, ovf |-> FALSE]
    ELSE DStep(c, dd, v, trace, KLoop(c, dd, -dd, v))

\* r is the outcome of round dd.
DStep(c, dd, v, trace, r) ==
    IF r.ovf THEN [trace |-> trace, ovf |-> TRUE]
    ELSE IF r.done THEN [trace |-> Append(trace, v), ovf |-> FALSE]
    ELSE DLoop(c, dd + 1, r.v, Append(trace, v))

RECURSIVE Diagonal(_, _, _, _), Backtrack(_, _, _, _)
\* The equal items walked back from (x, y) to (px, y - x + px), in order.
Diagonal(x, y, px, py) ==
    IF x > px /\ y > py
    THEN Append(Diagonal(x - 1, y - 1, px, py), Range(x - 1, x, y - 1, y))
    ELSE <<>>

\* The script read back from the trace, rounds dd .. 0, ending at (x, y).
Backtrack(trace, dd, x, y) ==
    IF dd < 1 THEN <<>>
    ELSE LET v == trace[dd]
             k == x - y
             r == dd - 1
             prevk == IF k = -r \/ (k # r /\ v[k - 1] < v[k + 1])
                      THEN k + 1 ELSE k - 1
             prevx == IF prevk \in DOMAIN v THEN v[prevk] ELSE 0
             prevy == prevx - prevk
             nd == IF x - prevx < y - prevy THEN x - prevx ELSE y - prevy
             n == IF nd < 0 THEN 0 ELSE nd
             step == IF r > 0 THEN <<Range(prevx, x - n, prevy, y - n)>> ELSE <<>>
         IN Backtrack(trace, dd - 1, prevx, prevy)
              \o step \o Diagonal(x, y, prevx, prevy)

\* The script of a finished search r.
Script(c, r) ==
    IF r.ovf THEN [script |-> <<>>, ovf |-> TRUE]
    ELSE IF Len(r.trace) = Len(c.as) + Len(c.bs)
         THEN [script |-> <<Range(0, Len(c.as), 0, 0), Range(0, 0, 0, Len(c.bs))>>,
               ovf |-> FALSE]
    ELSE [script |-> Backtrack(r.trace, Len(r.trace), Len(c.as), Len(c.bs)),
          ovf |-> FALSE]

\* myers.Diff: the ranges of the script; ovf when eq never returned.
Myers(c) ==
    IF Len(c.as) = 0
    THEN [script |-> <<Range(0, 0, 0, Len(c.bs))>>, ovf |-> FALSE]
    ELSE IF Len(c.bs) = 0
         THEN [script |-> <<Range(0, Len(c.as), 0, 0)>>, ovf |-> FALSE]
    ELSE Script(c, DLoop(c, 0, [k \in (-Len(c.as) - Len(c.bs) - 1)..
                                        (Len(c.as) + Len(c.bs) + 1) |-> 0], <<>>))

\* diffseq.Diff(as, bs, d.itemEq)
Diff(s, as, bs, d) ==
    [Myers([s |-> s, as |-> as, bs |-> bs, d |-> d, eq |-> "itemEq"])
        EXCEPT !.script = merge(@)]

\* differ.seqDiff
seqDiff(s, e, av, bv, d) ==
    WalkEdits(s, e, av, bv, Diff(s, Elems(s.heap, av), Elems(s.heap, bv), d), d)

\* seqDiff: the loop over the edits r.script.
WalkEdits(s, e, av, bv, r, d) ==
    IF r.ovf THEN Overflow(s)
    ELSE IF r.script = <<>> \/ s.st # "ok" THEN s
    ELSE LET ed == Head(r.script)
             as == Elems(s.heap, av)
             bs == Elems(s.heap, bv)
             s1 == IF ed.A1 - ed.A0 = ed.B1 - ed.B0
                   THEN WalkItems(s, e, av, bv, ed, 0, d)
                   ELSE Emitf(s, Subf(e, av.t, PRange(ed.A0, ed.A1)), "%v != %v",
                              <<SubSeq(as, ed.A0 + 1, ed.A1),
                                SubSeq(bs, ed.B0 + 1, ed.B1)>>)
         IN WalkEdits(s1, e, av, bv, [r EXCEPT !.script = Tail(@)], d)

\* seqDiff: an edit whose two ranges have one length, item by item.
WalkItems(s, e, av, bv, ed, i, d) ==
    IF i >= ed.A1 - ed.A0 \/ s.st # "ok" THEN s
    ELSE WalkItems(Walk(s, Subf(e, av.t, PIndex(ed.A0 + i)),
                        Elems(s.heap, av)[ed.A0 + i + 1],
                        Elems(s.heap, bv)[ed.B0 + i + 1],
                        TRUE, d + 1),
                   e, av, bv, ed, i + 1, d)

(***************************************************************************)
(* Text: stringDiff, textDiff and the unified diff of two texts.  A string *)
(* is the sequence of its bytes, every byte but "0xff" a rune of its own.  *)
(***************************************************************************)
\* diffseq.DiffSlice(as, bs): Diff with the == of the items.
DiffSlice(as, bs) ==
    merge(Myers([s |-> <<>>, as |-> as, bs |-> bs, d |-> 0, eq |-> "ItemEq"]).script)

\* utf8.ValidString
ValidString(x) == \A i \in DOMAIN x : x[i] # "0xff"

\* strings.Count(s, sep) for a one-byte sep
Count(x, sep) == Cardinality({i \in DOMAIN x : x[i] = sep})

\* textCheck with the second conjunct dropped: any number of pieces will do.
textCheck_AnyCount(x, sep, nmin, amax) ==
    Len(x) \div (Count(x, sep) + 1) <= amax

\* textCheck with the average held below amax.
textCheck_Below(x, sep, nmin, amax) ==
    LET n == Count(x, sep) + 1
    IN n >= nmin /\ Len(x) \div n < amax

\* textCheck: at least nmin pieces of at most amax bytes on average.
textCheck(x, sep, nmin, amax) ==
    LET n == Count(x, sep) + 1
    IN n >= nmin /\ Len(x) \div n <= amax

RECURSIVE Split(_, _), SplitAfter(_, _), accumFrom(_, _)
\* strings.Split(s, sep) for a one-byte sep
Split(x, sep) ==
    IF Count(x, sep) = 0 THEN <<x>>
    ELSE LET i == CHOOSE i \in DOMAIN x :
                    x[i] = sep /\ \A j \in 1..(i - 1) : x[j] # sep
         IN <<SubSeq(x, 1, i - 1)>> \o Split(SubSeq(x, i + 1, Len(x)), sep)

\* strings.SplitAfter(s, sep) for a one-byte sep
SplitAfter(x, sep) ==
    IF Count(x, sep) = 0 THEN <<x>>
    ELSE LET i == CHOOSE i \in DOMAIN x :
                    x[i] = sep /\ \A j \in 1..(i - 1) : x[j] # sep
         IN <<SubSeq(x, 1, i)>> \o SplitAfter(SubSeq(x, i + 1, Len(x)), sep)

\* splitRunes on a valid string: one piece per rune.
splitRunes(x) == [i \in DOMAIN x |-> <<x[i]>>]

\* accum, from the running total n.
accumFrom(n, as) ==
    IF as = <<>> THEN <<n>>
    ELSE <<n>> \o accumFrom(n + Len(Head(as)), Tail(as))

\* accum: the byte offsets of the pieces and of the end.
accum(as) == accumFrom(0, as)

RECURSIVE InlineEdits(_, _, _, _, _, _)
\* textDiffInline: the loop over the edits, one report each.
InlineEdits(s, e, x, y, cuts, eds) ==
    IF eds = <<>> THEN s
    ELSE LET ed == Head(eds)
             a0 == cuts[1][ed.A0 + 1]
             a1 == cuts[1][ed.A1 + 1]
             b0 == cuts[2][ed.B0 + 1]
             b1 == cuts[2][ed.B1 + 1]
         IN InlineEdits(Emitf(s, Subf(e, "string", PRange(a0, a1)), "%+q != %+q",
                              <<SubSeq(x, a0 + 1, a1), SubSeq(y, b0 + 1, b1)>>),
                        e, x, y, cuts, Tail(eds))

\* textDiffInline
textDiffInline(s, e, x, y, as, bs) ==
    InlineEdits(s, e, x, y, <<accum(as), accum(bs)>>, DiffSlice(as, bs))

\* stripWS.Replace and visWS.Replace, byte by byte
stripWS(x) == SelectSeq(x, LAMBDA ch : ch \notin {" ", "\t"})
RECURSIVE visWS(_)
visWS(x) ==
    IF x = <<>> THEN <<>>
    ELSE (CASE Head(x) = " " -> <<"U+00B7">>
            [] Head(x) = "\t" -> <<" ", "U+2192", " ">>
            [] OTHER -> <<Head(x)>>) \o visWS(Tail(x))

\* wsFilter: visWS when the edit changes white space only, else identity.
wsFilter(ed, as, bs) ==
    IF ed.A1 - ed.A0 # ed.B1 - ed.B0 THEN "identity"
    ELSE IF \E i \in 0..(ed.A1 - ed.A0 - 1) :
                stripWS(as[ed.A0 + i + 1]) # stripWS(bs[ed.B0 + i + 1])
         THEN "identity"
    ELSE "visWS"

\* vis.WriteString(f, line)
Vis(vis, line) == IF vis = "visWS" THEN visWS(line) ELSE line

aIsClose(e, i) == e[i + 1].A0 - e[i].A1 <= 2 * nContext
bIsClose(e, i) == e[i + 1].B0 - e[i].B1 <= 2 * nContext

\* lineRange(r0, r1): what it prints, "start,count" or "start" for one line.
lineRange(r0, r1) ==
    CASE r1 - r0 = 0 -> [form |-> "%d,0", start |-> r0, count |-> 0]
      [] r1 - r0 = 1 -> [form |-> "%d", start |-> r0, count |-> 1]
      [] OTHER -> [form |-> "%d,%d", start |-> r0 + 1, count |-> r1 - r0]

RECURSIVE CloseEnd(_, _), HunkLoop(_, _, _, _), FormatLoop(_, _, _, _, _)
\* Format: the loop that moves i1 past the edits close to their predecessor.
CloseEnd(merged, i1) ==
    IF i1 < Len(merged) /\ (aIsClose(merged, i1) \/ bIsClose(merged, i1))
    THEN CloseEnd(merged, i1 + 1)
    ELSE i1

\* A line of a hunk: its mark, its text, and the lines of a and b it shows.
Line(op, text, ai, bi) == [op |-> op, text |-> text, a |-> ai, b |-> bi]

\* Format: the loop that writes the lines of one hunk; x is <<as, bs,
\* merged, i1>>, st the variables the loop changes.
HunkLoop(x, st, a1, b1) ==
    IF ~(st.a0 < a1 \/ st.b0 < b1) THEN st
    ELSE LET as == x[1]
             bs == x[2]
             merged == x[3]
             ed == st.ed
             s1 == IF st.a0 < ed.A0 \/ st.i > x[4]
                   THEN [st EXCEPT !.a0 = @ + 1, !.b0 = @ + 1,
                            !.lines = Append(@, Line(" ", Vis(st.vis, as[st.a0 + 1]),
                                                     st.a0, st.b0))]
                   ELSE IF st.a0 < ed.A1
                   THEN [st EXCEPT !.a0 = @ + 1,
                            !.lines = Append(@, Line("-", Vis(st.vis, as[st.a0 + 1]),
                                                     st.a0, -1))]
                   ELSE IF st.b0 < ed.B1
                   THEN [st EXCEPT !.b0 = @ + 1,
                            !.lines = Append(@, Line("+", Vis(st.vis, bs[st.b0 + 1]),
                                                     -1, st.b0))]
                   ELSE st
             s2 == IF s1.a0 >= ed.A1 /\ s1.b0 >= ed.B1
                   THEN IF s1.i + 1 < Len(merged)
                        THEN [s1 EXCEPT !.i = @ + 1, !.ed = merged[s1.i + 2],
                                 !.vis = wsFilter(merged[s1.i + 2], as, bs)]
                        ELSE [s1 EXCEPT !.i = @ + 1]
                   ELSE s1
         IN HunkLoop(x, s2, a1, b1)

\* Format: the loop over the hunks, from edit i (from 0) of merged.
FormatLoop(as, bs, merged, i, hunks) ==
    IF i >= Len(merged) THEN hunks
    ELSE LET ed == merged[i + 1]
             i1 == CloseEnd(merged, i + 1)
             ed1 == merged[i1]
             a0 == IF ed.A0 - nContext > 0 THEN ed.A0 - nContext ELSE 0
             b0 == IF ed.B0 - nContext > 0 THEN ed.B0 - nContext ELSE 0
             a1 == IF ed1.A1 + nContext < Len(as) THEN ed1.A1 + nContext ELSE Len(as)
             b1 == IF ed1.B1 + nContext < Len(bs) THEN ed1.B1 + nContext ELSE Len(bs)
             st == HunkLoop(<<as, bs, merged, i1>>,
                            [a0 |-> a0, b0 |-> b0, i |-> i, ed |-> ed,
                             vis |-> wsFilter(ed, as, bs), lines |-> <<>>],
                            a1, b1)
         IN FormatLoop(as, bs, merged, st.i,
                       Append(hunks, [a |-> lineRange(a0, a1 - a0),
                                      b |-> lineRange(b0, b1 - b0),
                                      lines |-> st.lines]))

\* diffTextFormatter.Format: the two labels and the hunks.
diffTextFormatter(x, y, aLabel, bLabel) ==
    [aLabel |-> aLabel, bLabel |-> bLabel,
     hunks |-> FormatLoop(Split(x, "\n"), Split(y, "\n"),
                          DiffSlice(Split(x, "\n"), Split(y, "\n")), 0, <<>>)]

\* differ.textDiff: by level, then lines, short, words, runes.
textDiff(s, e, x, y) ==
    IF s.cfg.level = "full" THEN Emitf(s, e, "", <<>>)
    ELSE IF textCheck(x, "\n", LineMin, LineAvg) /\ textCheck(y, "\n", LineMin, LineAvg)
         THEN Emitf(s, e, "\n%s",
                    <<diffTextFormatter(x, y, s.cfg.aLabel, s.cfg.bLabel)>>)
    ELSE IF (Len(x) < ShortLen /\ Len(y) < ShortLen) \/ x = <<>> \/ y = <<>>
         THEN Emitf(s, e, "%+q != %+q", <<x, y>>)
    ELSE IF textCheck(x, " ", WordMin, WordAvg) /\ textCheck(y, " ", WordMin, WordAvg)
         THEN textDiffInline(s, e, x, y, SplitAfter(x, " "), SplitAfter(y, " "))
    ELSE textDiffInline(s, e, x, y, splitRunes(x), splitRunes(y))

\* differ.stringDiff: nothing for equal strings, the text diff of two valid
\* strings, one report for the rest.
stringDiff(s, e, x, y) ==
    IF x = y THEN s
    ELSE IF ValidString(x) /\ ValidString(y) THEN textDiff(s, e, x, y)
    ELSE Emitf(s, e, "binary: %+q != %+q", <<x, y>>)

\* differ.each, after newDiffer: the walk of the two inputs.
each(c, h, x, y) ==
    Walk(NewDiffer(c, h, Len(h) + 1), NewEmitter, x, y, TRUE, 1)


(***************************************************************************)
(* The entry points.  Each, Log and Test build a differ from the defaults  *)
(* and the caller's options and walk the two inputs.                       *)
(***************************************************************************)
Each ==
    /\ pc = "start"
    /\ res' = each(NewConfig(opts), heap, a, b)
    /\ pc' = "done"
    /\ UNCHANGED <<heap, a, b, opts, seqA, seqB, script, edits>>

\* Log: the sink writes each report to config.output.
Log ==
    /\ pc = "start"
    /\ res' = each(NewConfig(opts), heap, a, b)
    /\ pc' = "logged"
    /\ UNCHANGED <<heap, a, b, opts, seqA, seqB, script, edits>>

Test ==
    /\ pc = "start"
    /\ res' = each([NewConfig(opts) EXCEPT !.inTest = TRUE, !.aLabel = "got",
                                           !.bLabel = "want"], heap, a, b)
    /\ pc' = "done"
    /\ UNCHANGED <<heap, a, b, opts, seqA, seqB, script, edits>>

Next == Each \/ Log \/ Test

Finished == pc \in {"done", "logged"}

(***************************************************************************)
(* format.go: the rendering of one value, formatShort and formatFull.      *)
(* The text written is kept as the sequence of the strings written, each   *)
(* with the nesting d of the writeTo call that wrote it and whether it is  *)
(* part of a type or of a value; indentation and tab stops are left out.   *)
(* A rendering r holds the text (out), the formatter's seen table, the     *)
(* references descended into (log), the heap, and st, "overflow" once the  *)
(* calls of writeTo nest deeper than any finite rendering needs.           *)
(***************************************************************************)
formatShort(v, wantType) ==
    [root |-> v, wantType |-> wantType, full |-> FALSE, allowDepth |-> ShortDepth]

formatFull(v) ==
    [root |-> v, wantType |-> TRUE, full |-> TRUE, allowDepth |-> FullDepth]

NewRendering(h) == [out |-> <<>>, seen |-> {}, log |-> <<>>, st |-> "ok", heap |-> h]

\* io.WriteString(w, s) from the call of writeTo with nesting d.
Write(r, s, d) == [r EXCEPT !.out = Append(@, [s |-> s, d |-> d, w |-> "value"])]
WriteT(r, s, d) == [r EXCEPT !.out = Append(@, [s |-> s, d |-> d, w |-> "type"])]

\* io.WriteString(w, t.Field(i).Name): the name is kept beside the text.
WriteN(r, name, d, w) ==
    [r EXCEPT !.out = Append(@, [s |-> "Name", d |-> d, w |-> w, x |-> name])]

\* fmt.Fprintf(w, verb, v) for the value of a scalar.
WriteV(r, verb, v, d) ==
    [r EXCEPT !.out = Append(@, [s |-> verb, d |-> d, w |-> "value", x |-> v])]

\* t.Field(i).Name for field i (from 1) of the type of v; the fields of the
\* struct types R and struct{...} of the rendering inputs are F1, F2, ...
FieldName(v, i) ==
    IF v.t \in {"R", "struct"} THEN <<"F", i>> ELSE FieldNames(v.t)[i]

\* The deepest nesting of writeTo calls in a rendering that descends into
\* every reference once: three calls for each node of a graph (the pointer,
\* the struct, and the slice or map of the link), and one for the link back.
WriteLimit == 3 * MaxNodes + 1

\* writeType, Struct case: what the loop over the fields writes, four
\* strings for each field before the loop ends, and "..." when it ends at
\* field 20 of a short rendering.
writeTypeFields(r, v, full, d) ==
    LET cut == ~full /\ Len(v.f) > ShortMax
        n == IF cut THEN ShortMax ELSE Len(v.f)
        T(s) == [s |-> s, d |-> d, w |-> "type"]
        field(j) ==
            LET i == ((j - 1) \div 4) + 1
            IN CASE (j - 1) % 4 = 0 ->
                      [s |-> "Name", d |-> d, w |-> "type", x |-> FieldName(v, i)]
                 [] (j - 1) % 4 = 1 -> T(" ")
                 [] (j - 1) % 4 = 2 -> T(v.f[i].t)
                 [] (j - 1) % 4 = 3 -> T("\n")
    IN [r EXCEPT !.out = @ \o [j \in 1..(4 * n) |-> field(j)]
                             \o (IF cut THEN <<T("...\n")>> ELSE <<>>)]

\* writeType(w, t, full), t the type of v: the name of a named type, the
\* fields of a struct type without a name, and the type expression of any
\* other type (whose parts are named types in these inputs).
writeType(r, v, full, d) ==
    IF v.k = "struct" /\ v.t = "struct"
    THEN IF Len(v.f) > 1
         THEN WriteT(writeTypeFields(WriteT(WriteT(r, "struct{", d), "\n", d),
                                     v, full, d), "}", d)
         ELSE IF Len(v.f) = 1
         THEN WriteT(WriteT(WriteT(WriteT(WriteN(WriteT(WriteT(r, "struct{", d),
                  " ", d), FieldName(v, 1), d, "type"), " ", d), v.f[1].t, d), " ", d),
                  "}", d)
         ELSE WriteT(WriteT(r, "struct{", d), "}", d)
    ELSE WriteT(r, v.t, d)

\* writeSimple(w, verb, v, showType)
writeSimple(r, verb, v, showType, d) ==
    IF showType
    THEN Write(WriteV(Write(writeType(r, v, FALSE, d), "(", d), verb, v.v, d), ")", d)
    ELSE WriteV(r, verb, v.v, d)

\* writeTypedNil(w, t, showType, full); the pointer, function and channel
\* types of the inputs have no name, so they are put in parentheses.
writeTypedNil(r, v, showType, full, d) ==
    IF ~showType THEN Write(r, "nil", d)
    ELSE LET needParens == v.k \in {"func", "ptr", "chan"}
             r1 == IF needParens THEN Write(r, "(", d) ELSE r
             r2 == writeType(r1, v, full, d)
             r3 == IF needParens THEN Write(r2, ")", d) ELSE r2
         IN Write(Write(Write(r3, "(", d), "nil", d), ")", d)

\* writeTo's check for cycles with f.seen[vis] = true left out.
Mark_Never(r, v) ==
    IF v.k \in {"ptr", "map", "slice"} /\ ~IsNil(v)
    THEN [r EXCEPT !.log = Append(@, Visit(v))]
    ELSE r

\* writeTo's check for cycles, when v was not seen: f.seen[vis] = true for
\* a reference that is not nil.
Mark(r, v) ==
    IF v.k \in {"ptr", "map", "slice"} /\ ~IsNil(v)
    THEN [r EXCEPT !.seen = @ \cup {Visit(v)}, !.log = Append(@, Visit(v))]
    ELSE r

\* The loops of writeTo with the test i >= 20 left out.
Cut_Never(f, i) == FALSE

\* The test of writeTo's loops that ends a short rendering at item i.
Cut(f, i) == ~f.full /\ i >= ShortMax

\* sortedKeys(v) of one map: its keys, each at its rank in fmtsort's order
\* (for keys that compare alike, the order of iteration).
sortedKeys1(h, v) ==
    LET es == h[v.p]
        Before(j, i) == \/ KeyLess(es[j].key, es[i].key)
                        \/ (~KeyLess(es[i].key, es[j].key) /\ j < i)
        Rank(i) == Cardinality({j \in DOMAIN es : Before(j, i)}) + 1
    IN [r \in DOMAIN es |-> es[CHOOSE i \in DOMAIN es : Rank(i) = r].key]

RECURSIVE writeTo(_, _, _, _, _, _), writeKind(_, _, _, _, _, _),
          writeItems(_, _, _, _, _, _), writeFields(_, _, _, _, _, _),
          writeEntries(_, _, _, _, _, _, _)
\* formatter.writeTo(w, v, wantType, depth); d is the nesting of the call.
writeTo(f, r, v, wantType, depth, d) ==
    IF r.st # "ok" THEN r
    ELSE IF d > WriteLimit THEN [r EXCEPT !.st = "overflow"]
    ELSE IF ~IsValid(v) THEN Write(r, "nil", d)
    ELSE IF v.k \in {"ptr", "map", "slice"} /\ ~IsNil(v) /\ Visit(v) \in r.seen
         THEN Write(r, "...", d)
    ELSE writeKind(f, Mark(r, v), v, wantType, depth, d)

\* writeTo: the loop over the items es of an array or a slice, from item i.
writeItems(f, r, es, i, depth, d) ==
    IF i >= Len(es) \/ r.st # "ok" THEN r
    ELSE IF Cut(f, i) THEN Write(r, "...\n", d)
    ELSE writeItems(f, Write(writeTo(f, r, es[i + 1], FALSE, depth + 1, d + 1),
                             ",\n", d),
                    es, i + 1, depth, d)

\* writeTo: the loop over the fields of a struct, from field i.
writeFields(f, r, v, i, depth, d) ==
    IF i >= Len(v.f) \/ r.st # "ok" THEN r
    ELSE IF Cut(f, i) THEN Write(r, "...\n", d)
    ELSE writeFields(f, Write(writeTo(f, Write(WriteN(r, FieldName(v, i + 1), d, "value"),
                                               ":\t", d),
                                      v.f[i + 1], FALSE, depth + 1, d + 1),
                              ",\n", d),
                     v, i + 1, depth, d)

\* writeTo: the loop over the sorted keys ks of a map, from key i.
writeEntries(f, r, v, ks, i, depth, d) ==
    IF i >= Len(ks) \/ r.st # "ok" THEN r
    ELSE IF Cut(f, i) THEN Write(r, "...\n", d)
    ELSE writeEntries(f,
             Write(writeTo(f, Write(writeTo(f, r, ks[i + 1], FALSE, 0, d + 1),
                                    ":\t", d),
                           MapIndex(r.heap, v, ks[i + 1]), FALSE, depth + 1, d + 1),
                   ",\n", d),
             v, ks, i + 1, depth, d)

\* writeTo: the switch on the kind of v.
writeKind(f, r, v, wantType, depth, d) ==
    CASE v.k \in {"array", "slice"} ->
           IF v.k = "slice" /\ IsNil(v) THEN writeTypedNil(r, v, wantType, f.full, d)
           ELSE LET r1 == IF wantType THEN writeType(r, v, f.full, d) ELSE r
                    es == Elems(r.heap, v)
                IN IF depth >= f.allowDepth /\ Len(es) > 0 THEN Write(r1, "{...}", d)
                   ELSE IF Len(es) > 1
                   THEN Write(writeItems(f, Write(Write(r1, "{", d), "\n", d),
                                         es, 0, depth, d), "}", d)
                   ELSE IF Len(es) = 1
                   THEN Write(writeTo(f, Write(r1, "{", d), es[1], FALSE,
                                      depth + 1, d + 1), "}", d)
                   ELSE Write(Write(r1, "{", d), "}", d)
      [] v.k = "struct" ->
           LET r1 == IF wantType THEN writeType(r, v, f.full, d) ELSE r
           IN IF depth >= f.allowDepth /\ Len(v.f) > 0 THEN Write(r1, "{...}", d)
              ELSE IF Len(v.f) > 1
              THEN Write(writeFields(f, Write(Write(r1, "{", d), "\n", d),
                                     v, 0, depth, d), "}", d)
              ELSE IF Len(v.f) = 1
              THEN Write(writeTo(f, Write(WriteN(Write(r1, "{", d),
                                                FieldName(v, 1), d, "value"), ":", d),
                                 v.f[1], FALSE, depth + 1, d + 1), "}", d)
              ELSE Write(Write(r1, "{", d), "}", d)
      [] v.k = "func" ->
           IF IsNil(v) THEN writeTypedNil(r, v, wantType, f.full, d)
           ELSE Write(WriteT(r, v.t, d), " {...}", d)
      [] v.k = "iface" -> writeTo(f, r, v.e, TRUE, depth, d + 1)
      [] v.k = "map" ->
           IF IsNil(v) THEN writeTypedNil(r, v, wantType, f.full, d)
           ELSE LET r1 == IF wantType THEN writeType(r, v, f.full, d) ELSE r
                    ks == sortedKeys1(r.heap, v)
                IN IF depth >= f.allowDepth /\ Len(ks) > 0 THEN Write(r1, "{...}", d)
                   ELSE IF Len(ks) > 1
                   THEN Write(writeEntries(f, Write(Write(r1, "{", d), "\n", d),
                                           v, ks, 0, depth, d), "}", d)
                   ELSE IF Len(ks) = 1
                   THEN Write(writeTo(f, Write(writeTo(f, Write(r1, "{", d), ks[1],
                                                       FALSE, 0, d + 1), ":", d),
                                      MapIndex(r.heap, v, ks[1]), FALSE,
                                      depth + 1, d + 1), "}", d)
                   ELSE Write(Write(r1, "{", d), "}", d)
      [] v.k = "ptr" ->
           IF IsNil(v) THEN writeTypedNil(r, v, wantType, f.full, d)
           ELSE LET el == r.heap[v.p]
                    r1 == IF wantType \/ el.k # "struct" THEN Write(r, "&", d) ELSE r
                IN writeTo(f, r1, el, wantType \/ el.k = "ptr", depth, d + 1)
      [] v.k \in {"bool", "string"} ->
           writeSimple(r, IF v.k = "string" THEN "%q" ELSE "%v", v, FALSE, d)
      [] v.k \in {"int", "float"} -> writeSimple(r, "%v", v, wantType, d)
      [] v.k = "chan" ->
           IF IsNil(v) THEN writeTypedNil(r, v, wantType, f.full, d)
           ELSE Write(Write(writeType(Write(r, "(", d), v, f.full, d), ")", d),
                      "(%p)", d)

\* formatter.Format: f.writeTo(w, f.root, f.wantType, 1)
formatterFormat(f, h) == writeTo(f, NewRendering(h), f.root, f.wantType, 1, 1)

\* fmt.Sprint(formatShort(v, wantType)) and fmt.Sprint(formatFull(v)), the
\* two steps of the runs that render one value: a.
WriteShort ==
    /\ pc = "start"
    /\ \E wantType \in BOOLEAN : res' = formatterFormat(formatShort(a, wantType), heap)
    /\ pc' = "short"
    /\ UNCHANGED <<heap, a, b, opts, seqA, seqB, script, edits>>

WriteFull ==
    /\ pc = "start"
    /\ res' = formatterFormat(formatFull(a), heap)
    /\ pc' = "full"
    /\ UNCHANGED <<heap, a, b, opts, seqA, seqB, script, edits>>

NextWrite == WriteShort \/ WriteFull


NoRes == NewDiffer(NewConfig(<<>>), <<>>, 1)

(***************************************************************************)
(* Inputs: plain values over a fixed heap, compared pairwise.              *)
(***************************************************************************)
ValHeap ==
    <<IntV(0), IntV(0), IntV(1), NaN,                 \* 1..4: pointees
      <<IntV(0), IntV(0)>>, <<IntV(0), IntV(0)>>,     \* 5, 6: []int arrays
      <<NaN>>,                                        \* 7: a []float64 array
      <<[key |-> IntV(0), val |-> NaN]>>,             \* 8: map[int]float64
      <<[key |-> IntV(0), val |-> NaN]>>,             \* 9: map[int]float64
      IntV(0)>>                                       \* 10: a func's code

IntSlices == {SliceV("[]int", 0, 0)} \cup {SliceV("[]int", p, n) : p \in {5, 6}, n \in 0..2}

Leaves ==
    {Invalid, IntV(0), IntV(1), FloatV(0, FALSE), FloatV(1, FALSE), NaN,
     BoolV(FALSE), StringV(<<"a">>), StringV(<<"b">>),
     FuncV("func()", 0), FuncV("func()", 10), ChanV("chan int", 0), ChanV("chan int", 10),
     PtrV("*int", 0), PtrV("*int", 1), PtrV("*int", 2), PtrV("*int", 3),
     PtrV("*float64", 4), SliceV("[]float64", 7, 1),
     MapV("map[int]float64", 0), MapV("map[int]float64", 8), MapV("map[int]float64", 9),
     ArrayV("[1]int", <<IntV(0)>>), ArrayV("[1]int", <<IntV(1)>>),
     ArrayV("[1]float64", <<NaN>>), ArrayV("[1]any", <<IfaceV(Invalid)>>),
     ArrayV("[1]any", <<IfaceV(IntV(0))>>), ArrayV("[1]any", <<IfaceV(NaN)>>),
     ArrayV("[1]any", <<IfaceV(FuncV("func()", 10))>>)}

Vals == Leaves \cup IntSlices \cup {StructV("S2", <<x, y>>) : x, y \in IntSlices}

InitVals ==
    /\ pc = "start"
    /\ heap = ValHeap
    /\ a \in Vals
    /\ b \in Vals
    /\ opts = <<>>
    /\ res = NoRes
    /\ seqA = <<>> /\ seqB = <<>> /\ script = <<>> /\ edits = <<>>

SpecVals == InitVals /\ [][Next]_vars


(***************************************************************************)
(* Inputs: two graphs of nodes                                             *)
(*     type T struct { N int; P *T; K []*T; M map[int]*T }                 *)
(* as in TestCycle.  Side a owns the addresses 1..MaxNodes, side b the     *)
(* next MaxNodes; node i keeps the array of its K at NodeArr(i) and its M  *)
(* at NodeMap(i).  Every node has one link, to a node of its side or to    *)
(* nothing (0), and all links of a run pass through one field: P, K or M.  *)
(***************************************************************************)
NodesA == 1..MaxNodes
NodesB == (MaxNodes + 1)..(2 * MaxNodes)
NodeArr(i) == 2 * MaxNodes + i
NodeMap(i) == 4 * MaxNodes + i

\* Node i with N = n and its link to tg through the field named kind.
Node(i, n, tg, kind) ==
    StructV("T", <<IntV(n),
                   PtrV("*T", IF kind = "P" THEN tg ELSE 0),
                   IF kind = "K" /\ tg # 0 THEN SliceV("[]*T", NodeArr(i), 1)
                   ELSE SliceV("[]*T", 0, 0),
                   MapV("map[int]*T", IF kind = "M" /\ tg # 0 THEN NodeMap(i) ELSE 0)>>)

\* The heap of the two graphs: link[i] is the target of node i, n[i] its N.
GraphHeap(link, n, kind) ==
    [x \in 1..(6 * MaxNodes) |->
        IF x <= 2 * MaxNodes THEN Node(x, n[x], link[x], kind)
        ELSE IF x <= 4 * MaxNodes
             THEN IF kind = "K" /\ link[x - 2 * MaxNodes] # 0
                  THEN <<PtrV("*T", link[x - 2 * MaxNodes])>> ELSE <<>>
        ELSE IF kind = "M" /\ link[x - 4 * MaxNodes] # 0
             THEN <<[key |-> IntV(0), val |-> PtrV("*T", link[x - 4 * MaxNodes])]>>
        ELSE <<>>]

\* The links and the N fields of the two sides: side a holds zeros, side b
\* may differ from it in its first two nodes.
Links == {l \in [NodesA \cup NodesB -> 0..(2 * MaxNodes)] :
             /\ \A i \in NodesA : l[i] \in NodesA \cup {0}
             /\ \A i \in NodesB : l[i] \in NodesB \cup {0}}

Ns == {n \in [NodesA \cup NodesB -> {0, 1}] :
          \A i \in NodesA \cup NodesB : n[i] = 1 => i \in {MaxNodes + 1, MaxNodes + 2}}

InitCycle ==
    /\ pc = "start"
    /\ \E l \in Links, n \in Ns, kind \in {"P", "K", "M"} :
           heap = GraphHeap(l, n, kind)
    /\ a = PtrV("*T", 1)
    /\ b = PtrV("*T", MaxNodes + 1)
    /\ opts = <<>>
    /\ res = NoRes
    /\ seqA = <<>> /\ seqB = <<>> /\ script = <<>> /\ edits = <<>>

SpecCycle == InitCycle /\ [][Next]_vars

\* The node that node i of heap h links to (0: none), through whichever field.
LinkOf(h, i) ==
    IF h[i].f[2].p # 0 THEN h[i].f[2].p
    ELSE IF h[i].f[3].p # 0 THEN h[h[i].f[3].p][1].p
    ELSE IF h[i].f[4].p # 0 THEN h[h[i].f[4].p][1].val.p
    ELSE 0

\* The field the links of h pass through at node i ("": no link).
KindOf(h, i) ==
    IF h[i].f[2].p # 0 THEN "P"
    ELSE IF h[i].f[3].p # 0 THEN "K"
    ELSE IF h[i].f[4].p # 0 THEN "M"
    ELSE ""

RECURSIVE ReachFrom(_, _, _)
\* The nodes on the chain of links from node i, seen so far included.
ReachFrom(h, i, seen) ==
    IF i = 0 \/ i \in seen THEN seen ELSE ReachFrom(h, LinkOf(h, i), seen \cup {i})

\* The chain from the root of side a never ends: it runs into a cycle.
Cyclic(h) == \A i \in ReachFrom(h, 1, {}) : LinkOf(h, i) # 0

\* Side b links exactly as side a does.
SameShape(h) ==
    \A i \in NodesA :
        LinkOf(h, i + MaxNodes) = (IF LinkOf(h, i) = 0 THEN 0 ELSE LinkOf(h, i) + MaxNodes)

\* The nodes reachable from the root whose N differs between the sides.
DiffNodes(h) == {i \in ReachFrom(h, 1, {}) : h[i].f[1] # h[i + MaxNodes].f[1]}

\* C1 as stated (termination on cyclic graphs): every run on two graphs with
\* reference cycles returns, whatever field the cycle passes through.
C1_Terminates == Finished => res.st = "ok"

\* C8 as stated (isomorphic cycles): for two cyclic graphs of one shape the
\* walk returns and the sink is called once per reachable node whose N
\* differs, each time at a field N, and not at all when every N is equal.
C8_IsomorphicCycles ==
    (Finished /\ Cyclic(heap) /\ SameShape(heap)) =>
        /\ res.st = "ok"
        /\ Len(res.out) = Cardinality(DiffNodes(heap))
        /\ \A i \in DOMAIN res.out :
               res.out[i].path[Len(res.out[i].path)] = PField("N")

(***************************************************************************)
(* Inputs: values of the types transforms are registered for, compared     *)
(* under option lists that register them: the record                       *)
(*     type C struct { A, B int }                                          *)
(* of TestZeroFields and TestKeepFields, the ints of TestShowOrig, and     *)
(* time.Time values, for which the defaults register TimeEqual.            *)
(***************************************************************************)
Cs == {StructV("C", <<IntV(x), IntV(y)>>) : x, y \in {0, 1}}
Ints == {IntV(0), IntV(1)}
Times == {TimeV(w, m, l) : w, m, l \in {0, 1}}
XformVals == Cs \cup Ints \cup Times

\* The option lists: field transforms on C, the transforms of TestShowOrig
\* and TestInfLoop, transforms whose result holds a C again, and
\* ShowOriginal with and without them.
FieldOpts ==
    {<<ZeroFields("C", names)>> : names \in SUBSET {"A", "B"}}
        \cup {<<KeepFields("C", names)>> : names \in SUBSET {"A", "B"}}

XformOpts ==
    FieldOpts
        \cup {<<>>, <<ShowOriginal>>,
              <<Transform("int", Fn("Const0", {}))>>,
              <<Transform("int", Fn("Const0", {})), ShowOriginal>>,
              <<ZeroFields("C", {"B"}), ShowOriginal>>,
              <<Transform("C", Fn("Same", {}))>>,
              <<Transform("C", Fn("ToPtr", {}))>>,
              <<Transform("C", Fn("Wrap", {}))>>}

InitXform ==
    /\ pc = "start"
    /\ heap = <<>>
    /\ a \in XformVals
    /\ b \in XformVals
    /\ opts \in XformOpts
    /\ res = NoRes
    /\ seqA = <<>> /\ seqB = <<>> /\ script = <<>> /\ edits = <<>>

SpecXform == InitXform /\ [][Next]_vars

\* C4 as stated (sink only on difference): when the inputs are equal, as
\* given and as transformed, a run that returns has not called the sink,
\* whatever the options.
C4_SinkOnlyOnDifference ==
    (Finished /\ res.st = "ok" /\ a = b) => res.out = <<>>

\* The fields of C that a field transform keeps.
Kept(o) ==
    IF o.f.fn = "ZeroFields" THEN {"A", "B"} \ o.f.names ELSE o.f.names

\* The kept fields in which a and b differ.
KeptDiff(o) ==
    {i \in DOMAIN a.f : FieldNames("C")[i] \in Kept(o) /\ a.f[i] # b.f[i]}

\* C9 (field transforms): with ZeroFields or KeepFields registered for C,
\* two C values that agree on every kept field produce no emission, also
\* when they differ in a stripped field, and two that differ in one kept
\* field produce exactly one emission, whose path is "(transformed)"
\* followed by that field.
C9_FieldTransform ==
    (Finished /\ opts \in FieldOpts /\ a \in Cs /\ b \in Cs) =>
        /\ res.st = "ok"
        /\ KeptDiff(opts[1]) = {} => res.out = <<>>
        /\ \A i \in KeptDiff(opts[1]) :
               KeptDiff(opts[1]) = {i} =>
                   /\ Len(res.out) = 1
                   /\ res.out[1].root = "C"
                   /\ res.out[1].path = <<PXform, PField(FieldNames("C")[i])>>

\* Two C values that differ in both fields under ZeroFields[C]("B"): one
\* emission, for A.
C9_Witness ==
    /\ Finished
    /\ opts = <<ZeroFields("C", {"B"})>>
    /\ a = StructV("C", <<IntV(0), IntV(0)>>)
    /\ b = StructV("C", <<IntV(1), IntV(1)>>)
    /\ Len(res.out) = 1
    /\ res.out[1].path = <<PXform, PField("A")>>

\* C10 as stated (termination with transforms): on these finite acyclic
\* inputs every run returns, whatever transform is registered.
C10_TransformsTerminate == Finished => res.st = "ok"

(***************************************************************************)
(* Inputs: two distinct non-nil maps of one type, map[int]int as in        *)
(* TestMapSort or map[float64]int, with up to MaxKeys entries each.  A map *)
(* is held as the sequence of its entries in iteration order, so the       *)
(* family holds every iteration order of every map.                        *)
(***************************************************************************)
MapKeys(kt) ==
    IF kt = "int" THEN {IntV(0), IntV(1), IntV(2)}
    ELSE {FloatV(0, FALSE), FloatV(1, FALSE), NaN}

\* A key is held once, but for NaN, which equals no key and can be held in
\* any number of entries.
MapObjs(kt) ==
    {m \in UNION {[1..n -> [key : MapKeys(kt), val : {IntV(0), IntV(1)}]] : n \in 0..MaxKeys} :
        \A i, j \in DOMAIN m : i # j => ~KeyEq(m[i].key, m[j].key)}

MapType(kt) == IF kt = "int" THEN "map[int]int" ELSE "map[float64]int"

InitMap ==
    /\ pc = "start"
    /\ \E kt \in {"int", "float64"} :
           /\ heap \in {<<x, y>> : x, y \in MapObjs(kt)}
           /\ a = MapV(MapType(kt), 1)
           /\ b = MapV(MapType(kt), 2)
    /\ opts = <<>>
    /\ res = NoRes
    /\ seqA = <<>> /\ seqB = <<>> /\ script = <<>> /\ edits = <<>>

SpecMap == InitMap /\ [][Next]_vars

KeysOf(m) == {heap[m.p][i].key : i \in DOMAIN heap[m.p]}

\* The keys of x that y does not hold.
KeysOnlyIn(x, y) == {k \in KeysOf(x) : \A j \in KeysOf(y) : ~KeyEq(j, k)}

\* The shared keys with different values.
KeysChanged ==
    {k \in KeysOf(a) : IsValid(MapIndex(heap, b, k))
                          /\ MapIndex(heap, a, k) # MapIndex(heap, b, k)}

\* The keys of the emissions with the given message.
KeysReported(msg) ==
    {res.out[i].path[1].key : i \in {j \in DOMAIN res.out : res.out[j].msg = msg}}

\* C7 as stated (map key set): the keys reported "(removed)" are those of
\* a that b does not hold, the keys reported "(added)" are those of b that
\* a does not hold, the shared keys are compared (one report for each whose
\* values differ), and the emissions come in the sorted order of the keys.
C7_MapKeySet ==
    Finished =>
        /\ res.st = "ok"
        /\ KeysReported("(removed)") = KeysOnlyIn(a, b)
        /\ KeysReported("(added) %v") = KeysOnlyIn(b, a)
        /\ KeysReported("%v != %v") = KeysChanged
        /\ \A i, j \in DOMAIN res.out :
               i < j => ~KeyLess(res.out[j].path[1].key, res.out[i].path[1].key)

(***************************************************************************)
(* internal/diffseq on its own: a sequence A of up to MaxLen items, a      *)
(* sequence B of up to MaxLen - 1, and an edit script for them as          *)
(* myers.Diff may return one: ranges that cover both sequences from start  *)
(* to end, each a deletion, an insertion or a run of equal items.  Diff    *)
(* searches a script itself; Merge compacts the given one.                 *)
(***************************************************************************)
Items(max) == UNION {[1..n -> {IntV(0), IntV(1)}] : n \in 0..max}

RECURSIVE Scripts(_, _, _, _)
\* The scripts for as[x:] and bs[y:].
Scripts(as, bs, x, y) ==
    IF x = Len(as) /\ y = Len(bs) THEN {<<>>}
    ELSE UNION ({{<<Range(x, x + n, y, y)>> \o t : t \in Scripts(as, bs, x + n, y)} :
                     n \in 1..(Len(as) - x)}
                \cup {{<<Range(x, x, y, y + n)>> \o t : t \in Scripts(as, bs, x, y + n)} :
                     n \in 1..(Len(bs) - y)}
                \cup {{<<Range(x, x + n, y, y + n)>> \o t : t \in Scripts(as, bs, x + n, y + n)} :
                     n \in {m \in 1..(Len(as) - x) :
                               /\ m <= Len(bs) - y
                               /\ SubSeq(as, x + 1, x + m) = SubSeq(bs, y + 1, y + m)}})

\* For two empty sequences myers.Diff returns one empty range.
ValidScripts(as, bs) ==
    IF as = <<>> /\ bs = <<>> THEN {<<>>, <<Range(0, 0, 0, 0)>>}
    ELSE Scripts(as, bs, 0, 0)

InitSeq ==
    /\ pc = "start"
    /\ heap = <<>> /\ a = Invalid /\ b = Invalid /\ opts = <<>> /\ res = NoRes
    /\ seqA \in Items(MaxLen)
    /\ seqB \in Items(MaxLen - 1)
    /\ script \in ValidScripts(seqA, seqB)
    /\ edits = <<>>

\* diffseq.Diff(seqA, seqB, d.itemEq)
DiffSeq ==
    /\ pc = "start"
    /\ edits' = Diff(res, seqA, seqB, 1).script
    /\ pc' = "diffed"
    /\ UNCHANGED <<heap, a, b, opts, res, seqA, seqB, script>>

\* merge(script)
Merge ==
    /\ pc = "start"
    /\ edits' = merge(script)
    /\ pc' = "merged"
    /\ UNCHANGED <<heap, a, b, opts, res, seqA, seqB, script>>

NextSeq == DiffSeq \/ Merge

SpecSeq == InitSeq /\ [][NextSeq]_vars

RECURSIVE Patch(_, _, _, _)
\* as[x:] with each as[A0:A1] of the edits replaced by bs[B0:B1] and the
\* items between the edits copied.
Patch(as, bs, es, x) ==
    IF es = <<>> THEN SubSeq(as, x + 1, Len(as))
    ELSE SubSeq(as, x + 1, Head(es).A0)
             \o SubSeq(bs, Head(es).B0 + 1, Head(es).B1)
             \o Patch(as, bs, Tail(es), Head(es).A1)

\* Edits within the sequences, not overlapping, strictly increasing in the
\* A-index and in the B-index.
Increasing(es) ==
    /\ \A i \in DOMAIN es :
           /\ 0 <= es[i].A0 /\ es[i].A0 <= es[i].A1 /\ es[i].A1 <= Len(seqA)
           /\ 0 <= es[i].B0 /\ es[i].B0 <= es[i].B1 /\ es[i].B1 <= Len(seqB)
    /\ \A i \in DOMAIN es : \A j \in DOMAIN es :
           i < j => /\ es[i].A1 <= es[j].A0 /\ es[i].A0 < es[j].A0
                    /\ es[i].B1 <= es[j].B0 /\ es[i].B0 < es[j].B0

Changes == {i \in DOMAIN script : Op(script[i]) # "Eq"}

Covers(e, r) ==
    /\ e.A0 <= r.LowA /\ r.HighA <= e.A1
    /\ e.B0 <= r.LowB /\ r.HighB <= e.B1

Apart(e, r) ==
    /\ e.A1 <= r.LowA \/ r.HighA <= e.A0
    /\ e.B1 <= r.LowB \/ r.HighB <= e.B0

\* merge's rule: no Edit reaches into an Eq range, every Del and Ins range
\* lies in an Edit, two of them with no Eq range between them lie in the
\* same Edit, and there is one Edit for each run of them.
Merged(es) ==
    /\ \A i \in DOMAIN script \ Changes : \A j \in DOMAIN es : Apart(es[j], script[i])
    /\ \A i \in Changes : \E j \in DOMAIN es : Covers(es[j], script[i])
    /\ \A i \in Changes :
           i + 1 \in Changes =>
               \E j \in DOMAIN es : Covers(es[j], script[i]) /\ Covers(es[j], script[i + 1])
    /\ Len(es) = Cardinality({i \in Changes : i - 1 \notin Changes})

\* C6 (edit-script correctness): the Edits of Diff, and those merge makes
\* of any script, turn A into B when each A[A0:A1] is replaced by B[B0:B1]
\* and the rest is copied, and are non-overlapping and strictly increasing
\* in both indexes; merge drops the Eq ranges and fuses the Del and Ins
\* ranges that no Eq range separates into one Edit.
C6_EditScript ==
    /\ pc \in {"diffed", "merged"} =>
           Patch(seqA, seqB, edits, 0) = seqB /\ Increasing(edits)
    /\ pc = "merged" => Merged(edits)

\* A script Del, Ins, Eq, Del merged into two Edits, a replace and a delete.
C6_Witness ==
    /\ pc = "merged"
    /\ seqA = <<IntV(0), IntV(1), IntV(0)>>
    /\ seqB = <<IntV(1), IntV(1)>>
    /\ script = <<Range(0, 1, 0, 0), Range(1, 1, 0, 1), Range(1, 2, 1, 2), Range(2, 3, 2, 2)>>
    /\ edits = <<Edit(0, 1, 0, 1), Edit(2, 3, 2, 2)>>

(***************************************************************************)
(* Inputs: values of types with a format function: time.Time, for which    *)
(* the defaults register TimeDelta, and C, alone and as the field X of     *)
(*     type W struct { X C }                                               *)
(* under option lists that register, keep or remove format functions, at   *)
(* every verbosity level.                                                  *)
(***************************************************************************)
Ws == {StructV("W", <<c>>) : c \in Cs}
FormatVals == Cs \cup Ws \cup Times

Describe == Fn("Describe", {})     \* func(a, b C) string

FormatOpts ==
    {<<>>, <<ShowOriginal>>, <<EmitPathOnly>>, <<EmitFull>>,
     <<FormatRemove("time.Time")>>,
     <<Format("C", Describe)>>,
     <<Format("C", Describe), EmitPathOnly>>,
     <<Format("C", Describe), EmitFull>>,
     <<Format("C", Describe), ShowOriginal>>,
     <<Format("int", Fn("DescribeInt", {}))>>}

InitFormat ==
    /\ pc = "start"
    /\ heap = <<>>
    /\ a \in FormatVals
    /\ b \in FormatVals
    /\ opts \in FormatOpts
    /\ res = NoRes
    /\ seqA = <<>> /\ seqB = <<>> /\ script = <<>> /\ edits = <<>>

SpecFormat == InitFormat /\ [][Next]_vars

\* What the side session of the format hook says about a pair.
SideEqual(av, bv) == equal(NewDiffer(res.cfg, heap, Len(heap) + 1), av, bv, FALSE, 1)

\* The reports of the run that carry the message of a format function.
RECURSIVE HookReports(_)
HookReports(out) ==
    IF out = <<>> THEN <<>>
    ELSE IF Head(out).msg = "%s"
         THEN <<[fn |-> Head(out).args[1], av |-> Head(out).args[2],
                 bv |-> Head(out).args[3]]>> \o HookReports(Tail(out))
    ELSE HookReports(Tail(out))

\* The calls of walk that reach the format hook for certain: a pair of one
\* type with a format function and no transform, not of a reference kind.
AtFormatHook(i) ==
    /\ IsValid(res.log[i].av) /\ IsValid(res.log[i].bv)
    /\ res.log[i].av.t = res.log[i].bv.t
    /\ res.log[i].av.t \in DOMAIN res.cfg.format
    /\ res.log[i].av.t \notin DOMAIN res.cfg.xform

\* The format function is called on pairs of its type that the side session
\* found unequal, and only on them.
HookOnlyOnUnequal ==
    \A i \in DOMAIN res.hooks :
        /\ res.hooks[i].av.t = res.hooks[i].bv.t
        /\ res.hooks[i].av.t \in DOMAIN res.cfg.format
        /\ res.hooks[i].fn = res.cfg.format[res.hooks[i].av.t]
        /\ SideEqual(res.hooks[i].av, res.hooks[i].bv) = "ne"

\* A pair at the format hook is not walked into; it adds one report when it
\* is unequal and none when it is equal.
HookNoDescent ==
    \A i \in DOMAIN res.log :
        AtFormatHook(i) =>
            /\ res.log[i].sub = 0
            /\ res.log[i].m - res.log[i].n =
                   IF SideEqual(res.log[i].av, res.log[i].bv) = "ne" THEN 1 ELSE 0

\* C11 as stated (format hook): the hook is called only on pairs found
\* unequal by the side session, each call gives exactly one report, which
\* carries the hook's message, the pair is not walked into, and for an
\* equal pair of a type with a format function the hook is not called and
\* nothing is reported.
C11_FormatHook ==
    Finished =>
        /\ HookOnlyOnUnequal
        /\ HookNoDescent
        /\ HookReports(res.out) = res.hooks
        /\ (a.t = b.t /\ a.t \in DOMAIN res.cfg.format /\ SideEqual(a, b) = "eq") =>
               res.out = <<>> /\ res.hooks = <<>>

\* The root type and the path of every report, in order.
PathsOf(out) == [i \in DOMAIN out |-> <<out[i].root, out[i].path>>]

\* The run on the same inputs and settings with no format function registered.
NoFormatRun == each([res.cfg EXCEPT !.format = <<>>], heap, a, b)

\* Under EmitPathOnly every report is a root type and a path, nothing else.
PathOnlyReports ==
    \A i \in DOMAIN res.out : res.out[i].msg = "" /\ res.out[i].args = <<>>

\* C21 (path only): under EmitPathOnly every report is the root type and
\* the path alone, no format function is called, and the paths reported are
\* those of the run with no format function registered.
C21_PathOnlyNoFormat ==
    (Finished /\ res.cfg.level = "pathOnly") =>
        /\ PathOnlyReports
        /\ res.hooks = <<>>
        /\ PathsOf(res.out) = PathsOf(NoFormatRun.out)

\* The first part of C21 alone: the reports carry no message.
C21_PathOnlyNoMessage == (Finished /\ res.cfg.level = "pathOnly") => PathOnlyReports

\* Two values of C that differ in both fields under EmitPathOnly with a
\* format function for C: one report, for C itself; two without it.
C21_Witness ==
    /\ Finished
    /\ opts = <<Format("C", Describe), EmitPathOnly>>
    /\ a = StructV("C", <<IntV(0), IntV(0)>>)
    /\ b = StructV("C", <<IntV(1), IntV(1)>>)
    /\ Len(res.out) = 1
    /\ Len(NoFormatRun.out) = 2

(***************************************************************************)
(* Inputs: option lists of up to two options that set, reset or remove     *)
(* the settings the defaults set and others, on two times that differ in   *)
(* their location only, as in TestNoTimeLoc.                               *)
(***************************************************************************)
OptionSet ==
    {EmitAuto, EmitPathOnly, EmitFull, ShowOriginal,
     EqualFuncs(TRUE), EqualFuncs(FALSE), Logger("mine"),
     TimeEqual, Transform("time.Time", Fn("Same", {})), TransformRemove("time.Time"),
     Format("time.Time", Describe), FormatRemove("time.Time"),
     Transform("C", Fn("Same", {})), TransformRemove("C")}

OptionLists == UNION {[1..n -> OptionSet] : n \in 0..2}

InitOpts ==
    /\ pc = "start"
    /\ heap = <<>>
    /\ a \in {TimeV(0, 0, 0), TimeV(0, 0, 1)}
    /\ b \in {TimeV(0, 0, 0), TimeV(0, 0, 1)}
    /\ opts \in OptionLists
    /\ res = NoRes
    /\ seqA = <<>> /\ seqB = <<>> /\ script = <<>> /\ edits = <<>>

SpecOpts == InitOpts /\ [][Next]_vars

\* The defaults followed by the caller's options, and the place of the last
\* of them that is one of the given kinds for the given type (0: none).
Given == Default \o opts

LastOf(kinds, t) ==
    LET hit == {i \in DOMAIN Given : Given[i].o \in kinds /\ Given[i].t = t}
    IN IF hit = {} THEN 0 ELSE CHOOSE i \in hit : \A j \in hit : j <= i

\* A table of functions by type holds what the last option for the type
\* says: its function, or nothing after a removal.
LastWins(table, set, remove) ==
    \A t \in {"time.Time", "C"} :
        IF LastOf({set, remove}, t) = 0 \/ Given[LastOf({set, remove}, t)].o = remove
        THEN t \notin DOMAIN table
        ELSE t \in DOMAIN table /\ table[t] = Given[LastOf({set, remove}, t)].f

\* C12 (option order): every setting of the configuration of a run has the
\* value given by the last option for it among the defaults followed by
\* the caller's options: a transform removed after it was registered is
\* absent, one registered after its removal is present, and a caller's
\* option overrides the default.
C12_OptionOrder ==
    Finished =>
        /\ res.cfg.level = Given[LastOf({"verbosity"}, "")].x
        /\ res.cfg.output = Given[LastOf({"Logger"}, "")].x
        /\ res.cfg.equalFuncs = (/\ LastOf({"EqualFuncs"}, "") # 0
                                 /\ Given[LastOf({"EqualFuncs"}, "")].x = "true")
        /\ res.cfg.showOrig = (LastOf({"ShowOriginal"}, "") # 0)
        /\ LastWins(res.cfg.xform, "Transform", "TransformRemove")
        /\ LastWins(res.cfg.format, "Format", "FormatRemove")
        /\ (opts = <<TimeEqual, TransformRemove("time.Time")>> /\ a # b) => res.out # <<>>
        /\ opts = <<TransformRemove("time.Time"), TimeEqual>> => res.out = <<>>

\* A transform registered and then removed: the two times, equal but for
\* their location, are compared untransformed and reported.
C12_Witness ==
    /\ Finished
    /\ opts = <<TimeEqual, TransformRemove("time.Time")>>
    /\ a # b
    /\ "time.Time" \notin DOMAIN res.cfg.xform
    /\ res.out # <<>>

(***************************************************************************)
(* Inputs: function values of one type, nil and two distinct functions,    *)
(* held directly, in an array and in an interface, as in TestEqual and     *)
(* TestUnequal, with EqualFuncs set either way or left at its default.     *)
(***************************************************************************)
FuncHeap == <<IntV(0), IntV(0)>>      \* the code of two functions

Funcs == {FuncV("func()", p) : p \in 0..2}

FuncVals ==
    Funcs \cup {ArrayV("[1]func()", <<f>>) : f \in Funcs}
          \cup {ArrayV("[1]any", <<IfaceV(f)>>) : f \in Funcs}

InitFuncs ==
    /\ pc = "start"
    /\ heap = FuncHeap
    /\ a \in FuncVals
    /\ b \in FuncVals
    /\ opts \in {<<>>, <<EqualFuncs(FALSE)>>, <<EqualFuncs(TRUE)>>,
                 <<EqualFuncs(TRUE), EqualFuncs(FALSE)>>}
    /\ res = NoRes
    /\ seqA = <<>> /\ seqB = <<>> /\ script = <<>> /\ edits = <<>>

SpecFuncs == InitFuncs /\ [][Next]_vars

\* The function a value of the family holds.
FuncOf(v) ==
    IF v.k = "func" THEN v
    ELSE IF v.t = "[1]any" THEN Elems(heap, v)[1].e
    ELSE Elems(heap, v)[1]

\* C13 (EqualFuncs(false), the default): two functions of one type, held
\* the same way, are reported equal exactly when both are nil; two non-nil
\* functions are reported, the same function twice included, and so is nil
\* against non-nil.
C13_FuncsUnequal ==
    (Finished /\ ~res.cfg.equalFuncs /\ a.t = b.t) =>
        (res.out = <<>> <=> IsNil(FuncOf(a)) /\ IsNil(FuncOf(b)))

\* The same non-nil function on both sides, reported under the defaults.
C13_Witness ==
    /\ Finished
    /\ opts = <<>>
    /\ a = FuncV("func()", 1)
    /\ b = FuncV("func()", 1)
    /\ Len(res.out) = 1

\* C14 as stated (EqualFuncs(true)): two non-nil functions of one type are
\* reported equal, and a pair of which exactly one is nil is reported.
C14_EqualFuncsNil ==
    (Finished /\ res.cfg.equalFuncs /\ a.t = b.t) =>
        /\ (~IsNil(FuncOf(a)) /\ ~IsNil(FuncOf(b))) => res.out = <<>>
        /\ IsNil(FuncOf(a)) # IsNil(FuncOf(b)) => res.out # <<>>

(***************************************************************************)
(* Inputs: a call of Each, Log or Test on two C values whose argument list *)
(* holds one call of ZeroFields, KeepFields or KeepExported, with names    *)
(* that are fields of the type and names that are not, for C, for          *)
(*     type U struct { x int }                                             *)
(* and for struct{} as in TestKeepExported.  The arguments are evaluated   *)
(* before the function is entered.                                         *)
(***************************************************************************)
Calls ==
    {Call(ctor, t, names) : ctor \in {"ZeroFields", "KeepFields"},
                            t \in {"C", "struct{}"},
                            names \in SUBSET {"A", "B", "Z"}}
        \cup {Call("KeepExported", t, {}) : t \in {"C", "struct{}", "U", "time.Time"}}

InitCalls ==
    /\ pc = "args"
    /\ heap = <<>>
    /\ a \in Cs
    /\ b \in Cs
    /\ opts \in {<<c>> : c \in Calls}
    /\ res = NoRes
    /\ seqA = <<>> /\ seqB = <<>> /\ script = <<>> /\ edits = <<>>

\* The evaluation of the option arguments: each constructor returns its
\* option, or the first that fails panics and the call is never made.
MakeOptions ==
    /\ pc = "args"
    /\ IF \A i \in DOMAIN opts : Returns(opts[i])
       THEN /\ opts' = [i \in DOMAIN opts |-> Construct(opts[i])]
            /\ pc' = "start"
       ELSE /\ opts' = opts
            /\ pc' = "panic"
    /\ UNCHANGED <<heap, a, b, res, seqA, seqB, script, edits>>

NextCalls == MakeOptions \/ Each \/ Log \/ Test

SpecCalls == InitCalls /\ [][NextCalls]_vars

\* A call whose arguments the constructor must refuse.
BadCall(c) ==
    \/ /\ c.o \in {"ZeroFields", "KeepFields"}
       /\ \E name \in c.f.names : \A i \in DOMAIN FieldNames(c.t) : FieldNames(c.t)[i] # name
    \/ /\ c.o = "KeepExported"
       /\ \A i \in DOMAIN FieldNames(c.t) : ~IsExported(FieldNames(c.t)[i])

\* C15 (eager configuration errors): the evaluation of the arguments
\* panics exactly when a name given to ZeroFields or KeepFields is not a
\* field of the type or the type given to KeepExported has no exported
\* field; no comparison has started then or starts afterwards, and a
\* comparison runs only with options whose names were all checked.
C15_EagerPanic ==
    /\ [](pc \in {"args", "panic"} => res = NoRes)
    /\ [][pc = "args" => (pc' = "panic" <=> \E i \in DOMAIN opts : BadCall(opts[i]))]_vars
    /\ [][pc = "panic" => FALSE]_vars

\* KeepExported[struct{}]() has panicked; nothing was compared.
C15_Witness ==
    /\ pc = "panic"
    /\ opts = <<Call("KeepExported", "struct{}", {})>>
    /\ res = NoRes

(***************************************************************************)
(* Inputs: two []int slices of up to MaxLen items, nil, or cut from one    *)
(* array or from two, as in TestSliceType.                                 *)
(***************************************************************************)
Arrays == [1..MaxLen -> {IntV(0), IntV(1)}]

SlicesOf(ps) == {SliceV("[]int", 0, 0)} \cup {SliceV("[]int", p, n) : p \in ps, n \in 0..MaxLen}

InitSlices ==
    /\ pc = "start"
    /\ heap \in {<<x, y>> : x, y \in Arrays}
    /\ a \in SlicesOf({1})
    /\ b \in SlicesOf({1, 2})
    /\ opts = <<>>
    /\ res = NoRes
    /\ seqA = <<>> /\ seqB = <<>> /\ script = <<>> /\ edits = <<>>

SpecSlices == InitSlices /\ [][Next]_vars

IsPrefix(x, y) == Len(x) < Len(y) /\ SubSeq(y, 1, Len(x)) = x

\* One of the two slices is a proper prefix of the other.
OnePrefix ==
    \/ IsPrefix(Elems(heap, a), Elems(heap, b))
    \/ IsPrefix(Elems(heap, b), Elems(heap, a))

\* The one report of a prefix pair: the range of a from the end of the
\* common prefix to the end of a, and no walk below the pair.
OneRange ==
    /\ Len(res.out) = 1
    /\ res.out[1].root = "[]int"
    /\ res.out[1].path =
           <<PRange(IF a.n < b.n THEN a.n ELSE b.n, a.n)>>
    /\ Len(res.log) = 1

\* C16 as stated (prefix sequences): whenever one of two non-byte sequences
\* is a proper prefix of the other there is exactly one report, for the
\* index range after the common prefix, and none for the items of the
\* prefix.
C16_PrefixRangeAny == (Finished /\ OnePrefix) => OneRange

\* C16 (prefix sequences), for two non-nil slices: exactly one report,
\* with the path [k:n], k the length of the common prefix and n the length
\* of a, and none for the items of the prefix.
C16_PrefixRange == (Finished /\ OnePrefix /\ ~IsNil(a) /\ ~IsNil(b)) => OneRange

\* Three items against the first two of another array with the same items:
\* one report, for [2:3].
C16_Witness ==
    /\ Finished
    /\ a = SliceV("[]int", 1, 3)
    /\ b = SliceV("[]int", 2, 2)
    /\ OnePrefix
    /\ Len(res.out) = 1
    /\ res.out[1].path = <<PRange(2, 3)>>

(***************************************************************************)
(* Inputs: two strings of up to MaxLen bytes, new lines and a byte that is *)
(* not UTF-8 among them, or two longer ones: two phrases of words or two   *)
(* runs of runes, as in TestTextWords and TestTextRunes.                   *)
(***************************************************************************)
Bytes == {"a", "b", "\n", "0xff"}

Rep(n, x) == [i \in 1..n |-> x]

Phrases == {Rep(4, "a") \o <<" ">> \o Rep(4, "b") \o <<" ">> \o Rep(4, "a")
              \o <<" ">> \o Rep(4, "b") \o <<" ">> \o Rep(4, w) : w \in {"a", "b"}}

Runs == {Rep(ShortLen, "a"), Rep(ShortLen - 1, "a") \o <<"b">>}

Strings == UNION {[1..n -> Bytes] : n \in 0..MaxLen}

InitText ==
    /\ pc = "start"
    /\ heap = <<>>
    /\ \E S \in {Strings, Phrases, Runs} :
          /\ a \in {StringV(x) : x \in S}
          /\ b \in {StringV(x) : x \in S}
    /\ opts \in {<<>>, <<EmitFull>>}
    /\ res = NoRes
    /\ seqA = <<>> /\ seqB = <<>> /\ script = <<>> /\ edits = <<>>

SpecText == InitText /\ [][Next]_vars

\* Two different valid strings, both shorter than 20 bytes, compared under
\* the default verbosity.
ShortPair ==
    /\ Finished
    /\ res.cfg.level = "auto"
    /\ a.v # b.v
    /\ ValidString(a.v) /\ ValidString(b.v)
    /\ Len(a.v) < ShortLen /\ Len(b.v) < ShortLen

\* One report, at the root, with the two whole strings quoted.
QuotedPair ==
    /\ Len(res.out) = 1
    /\ res.out[1].path = <<>>
    /\ res.out[1].msg = "%+q != %+q"
    /\ res.out[1].args = <<a.v, b.v>>

HasNewline(x) == \E i \in DOMAIN x : x[i] = "\n"

\* C17 as stated (short strings): two different valid strings shorter than
\* 20 bytes always give exactly one report with both whole strings quoted.
C17_ShortStringsAny == ShortPair => QuotedPair

\* C17 (short strings), unless both strings have a new line in them: two
\* different valid strings shorter than 20 bytes give exactly one report
\* with both whole strings quoted.
C17_ShortStrings ==
    (ShortPair /\ ~(HasNewline(a.v) /\ HasNewline(b.v))) => QuotedPair

\* A string of two lines against one of one line: the quoted pair.
C17_Witness ==
    /\ ShortPair
    /\ a.v = <<"a", "\n", "b">>
    /\ b.v = <<"a">>
    /\ QuotedPair

\* Two short strings of two lines each: the unified diff, as in TestLogMyers.
C17_LinesWitness ==
    /\ ShortPair
    /\ a.v = <<"a", "\n", "b">>
    /\ b.v = <<"a", "\n", "a">>
    /\ Len(res.out) = 1
    /\ res.out[1].msg = "\n%s"

(***************************************************************************)
(* Inputs: two texts of 2 to MaxLines lines, each line x or y, or one of   *)
(* three longer ones whose changes are far enough apart for two hunks, or  *)
(* one whose change is in white space only.                                *)
(***************************************************************************)
RECURSIVE Join(_)
\* strings.Join(lines, "\n")
Join(ls) ==
    IF Len(ls) = 1 THEN ls[1] ELSE ls[1] \o <<"\n">> \o Join(Tail(ls))

Texts ==
    {Join(ls) : ls \in UNION {[1..n -> {<<"x">>, <<"y">>}] : n \in 2..MaxLines}}
      \cup {Join(Rep(1, <<w>>) \o Rep(2 * nContext + 1, <<"z">>) \o Rep(1, <<w>>)) :
                w \in {"x", "y"}}
      \cup {Join(<<<<"x">>, <<"x", w>>>>) : w \in {" ", "\t"}}

InitLines ==
    /\ pc = "start"
    /\ heap = <<>>
    /\ a \in {StringV(x) : x \in Texts}
    /\ b \in {StringV(x) : x \in Texts}
    /\ opts = <<>>
    /\ res = NoRes
    /\ seqA = <<>> /\ seqB = <<>> /\ script = <<>> /\ edits = <<>>

SpecLines == InitLines /\ [][Next]_vars

\* The numbers of the lines of one side that a hunk shows, from 0, in order.
SideLines(h, ops, side) ==
    LET ls == SelectSeq(h.lines, LAMBDA l : l.op \in ops)
    IN [i \in DOMAIN ls |-> IF side = "a" THEN ls[i].a ELSE ls[i].b]

\* A header range r is right for the lines ns it covers: their count, and
\* the number from 1 of the first of them.
RangeRight(r, ns) ==
    /\ r.count = Len(ns)
    /\ ns # <<>> => r.start = ns[1] + 1

HunkRight(h) ==
    /\ RangeRight(h.a, SideLines(h, {" ", "-"}, "a"))
    /\ RangeRight(h.b, SideLines(h, {" ", "+"}, "b"))

\* The run reported one unified diff.
LineDiff ==
    /\ Finished
    /\ Len(res.out) = 1
    /\ res.out[1].msg = "\n%s"

Hunks == res.out[1].args[1].hunks

\* C18 (hunk headers): in every hunk of a unified diff the header gives,
\* for each side, the number from 1 of the first line of the hunk and the
\* number of lines of that side in the hunk.
C18_HunkHeaders == LineDiff => \A i \in DOMAIN Hunks : HunkRight(Hunks[i])

\* The headers of the hunks that start at the first line of both texts.
C18_FirstLineHunks ==
    LineDiff => \A i \in DOMAIN Hunks :
                   (Hunks[i].lines[1].a = 0 /\ Hunks[i].lines[1].b = 0)
                       => HunkRight(Hunks[i])

\* Five lines with a change in the last: the hunk starts at line 2 and
\* has four lines of each side, and the header says "-2,3 +2,3".
C18_Witness ==
    /\ LineDiff
    /\ a.v = Join(<<<<"x">>, <<"x">>, <<"x">>, <<"x">>, <<"x">>>>)
    /\ b.v = Join(<<<<"x">>, <<"x">>, <<"x">>, <<"x">>, <<"y">>>>)
    /\ Len(Hunks) = 1
    /\ Len(SideLines(Hunks[1], {" ", "-"}, "a")) = 4
    /\ Hunks[1].a = [form |-> "%d,%d", start |-> 2, count |-> 3]
    /\ Hunks[1].b = [form |-> "%d,%d", start |-> 2, count |-> 3]

\* Two hunks: the changes in the first and the last of nine lines.
C18_TwoHunks ==
    /\ LineDiff
    /\ Len(Hunks) = 2

\* A change in white space only is shown with the white space made visible.
C18_VisibleSpace ==
    /\ LineDiff
    /\ \E i \in DOMAIN Hunks[1].lines : Hunks[1].lines[i].text = <<"x", "U+00B7">>

(***************************************************************************)
(* Inputs of a rendering: one container of 0 to MaxElems items: an array,  *)
(* a slice, a map, a struct of a named type (R) or of a type without a     *)
(* name.  The items are ints, pointers to one int, or arrays of two ints;  *)
(* the heap holds the array of the slice, the entries of the map, and the  *)
(* int pointed to.  [N] stands for the length of an array type.            *)
(***************************************************************************)
ItemOf(ek, i) ==
    CASE ek = "int" -> IntV(i % 2)
      [] ek = "*int" -> PtrV("*int", 3)
      [] ek = "[2]int" -> ArrayV("[2]int", <<IntV(0), IntV(1)>>)

ItemsOf(ek, n) == [i \in 1..n |-> ItemOf(ek, i)]

TruncHeap(ek, n) ==
    <<ItemsOf(ek, n), [i \in 1..n |-> [key |-> IntV(i), val |-> ItemOf(ek, i)]], IntV(7)>>

Containers(n) ==
    {ArrayV("[N]E", ItemsOf(ek, n)) : ek \in {"int", "*int", "[2]int"}}
      \cup {StructV(t, ItemsOf(ek, n)) : t \in {"R", "struct"},
                                         ek \in {"int", "*int", "[2]int"}}
      \cup {SliceV("[]E", 1, n), MapV("map[int]E", 2)}

InitTrunc ==
    /\ pc = "start"
    /\ \E n \in 0..MaxElems, ek \in {"int", "*int", "[2]int"} :
          /\ heap = TruncHeap(ek, n)
          /\ a \in Containers(n)
    /\ b = Invalid
    /\ opts = <<>>
    /\ res = NoRes
    /\ seqA = <<>> /\ seqB = <<>> /\ script = <<>> /\ edits = <<>>

SpecTrunc == InitTrunc /\ [][NextWrite]_vars

\* The number of items, entries or fields of the container a.
Size ==
    CASE a.k = "array" -> Len(a.e)
      [] a.k = "struct" -> Len(a.f)
      [] a.k = "slice" -> a.n
      [] a.k = "map" -> Len(heap[a.p])

\* How many of the strings written satisfy P.
HowMany(out, P(_)) == Cardinality({i \in DOMAIN out : P(out[i])})

\* The items of the container that were rendered: each is followed by ",\n"
\* written by the first call of writeTo.
Shown == HowMany(res.out, LAMBDA w : w.s = ",\n" /\ w.d = 1)

\* The ellipsis markers anywhere in the rendering.
Ellipses == HowMany(res.out, LAMBDA w : w.s \in {"...", "...\n", "{...}", " {...}"})

\* The "..." lines the first call of writeTo wrote among the items.
Cuts == HowMany(res.out, LAMBDA w : w.s = "...\n" /\ w.d = 1 /\ w.w = "value")

\* C19 as stated (truncation): the short rendering of a container with more
\* than 20 items contains exactly one ellipsis marker and at most 20 items.
C19_TruncationAny == (pc = "short" /\ Size > ShortMax) => (Ellipses = 1 /\ Shown <= ShortMax)

\* C19 (truncation), for the list of items: the short rendering of a
\* container with more than 20 items shows the first 20 of them and, in
\* place of the rest, exactly one "..." line, the last thing before the
\* closing brace.
C19_Truncation ==
    (pc = "short" /\ Size > ShortMax) =>
        /\ Shown = ShortMax
        /\ Cuts = 1
        /\ res.out[Len(res.out) - 1].s = "...\n"
        /\ res.out[Len(res.out)].s = "}"

\* [21]int{}, as in TestWriteShort: twenty items and one ellipsis.
C19_Witness ==
    /\ pc = "short"
    /\ a = ArrayV("[N]E", ItemsOf("int", ShortMax + 1))
    /\ Shown = ShortMax
    /\ Ellipses = 1

\* A struct of 21 fields of a type without a name, as in TestWriteShort:
\* one ellipsis in the type and one in the value.
C19_TwoEllipses ==
    /\ pc = "short"
    /\ a = StructV("struct", ItemsOf("int", ShortMax + 1))
    /\ Shown = ShortMax
    /\ Ellipses = 2

\* The full rendering shows every item and cuts nothing.
C19_FullShowsAll == (pc = "full" /\ Size > 1) => (Shown = Size /\ Cuts = 0)

(***************************************************************************)
(* Inputs of a rendering: a pointer to the first node of a graph of T, as  *)
(* in TestWriteCycle, with the links of the graphs of TestCycle.           *)
(***************************************************************************)
InitWrite ==
    /\ pc = "start"
    /\ \E l \in Links, n \in Ns, kind \in {"P", "K", "M"} :
           heap = GraphHeap(l, n, kind)
    /\ a = PtrV("*T", 1)
    /\ b = Invalid
    /\ opts = <<>>
    /\ res = NoRes
    /\ seqA = <<>> /\ seqB = <<>> /\ script = <<>> /\ edits = <<>>

SpecWrite == InitWrite /\ [][NextWrite]_vars

\* No reference was descended into twice.
NoRepeat(log) == \A i, j \in DOMAIN log : log[i] = log[j] => i = j

\* The "..." written for references seen before.
Revisits == HowMany(res.out, LAMBDA w : w.s = "...")

\* C20 (cycles in a rendering): every rendering, short or full, of a graph
\* ends, cycles or not; no pointer, map or slice is descended into twice.
C20_WriteTerminates ==
    pc \in {"short", "full"} => (res.st = "ok" /\ NoRepeat(res.log))

\* Two nodes that point to each other, as in TestWriteCycle: the full
\* rendering descends into each once and writes "..." for the link back.
C20_Witness ==
    /\ pc = "full"
    /\ KindOf(heap, 1) = "P" /\ LinkOf(heap, 1) = 2 /\ LinkOf(heap, 2) = 1
    /\ res.st = "ok"
    /\ res.log = <<Visit(PtrV("*T", 1)), Visit(PtrV("*T", 2))>>
    /\ Revisits = 1

(***************************************************************************)
(* reflect.DeepEqual on acyclic values, the reference the doc comment of   *)
(* Each names.                                                             *)
(***************************************************************************)
RECURSIVE DeepEqual(_, _, _)
DeepEqual(h, x, y) ==
    IF ~IsValid(x) \/ ~IsValid(y) THEN IsValid(x) = IsValid(y)
    ELSE IF x.t # y.t THEN FALSE
    ELSE CASE x.k = "array" ->
                \A i \in DOMAIN x.e : DeepEqual(h, x.e[i], y.e[i])
           [] x.k = "slice" ->
                /\ IsNil(x) = IsNil(y)
                /\ x.n = y.n
                /\ \/ x.p = y.p
                   \/ \A i \in 1..x.n : DeepEqual(h, h[x.p][i], h[y.p][i])
           [] x.k = "iface" -> DeepEqual(h, x.e, y.e)
           [] x.k = "ptr" ->
                \/ x.p = y.p
                \/ x.p # 0 /\ y.p # 0 /\ DeepEqual(h, h[x.p], h[y.p])
           [] x.k = "struct" ->
                \A i \in DOMAIN x.f : DeepEqual(h, x.f[i], y.f[i])
           [] x.k = "map" ->
                /\ IsNil(x) = IsNil(y)
                /\ \/ x.p = y.p
                   \/ /\ Len(h[x.p]) = Len(h[y.p])
                      /\ \A i \in DOMAIN h[x.p] :
                            LET w == MapIndex(h, y, h[x.p][i].key)
                            IN /\ ~IsNaNKey(h[x.p][i].key)
                               /\ IsValid(w)
                               /\ DeepEqual(h, h[x.p][i].val, w)
           [] x.k = "func" -> IsNil(x) /\ IsNil(y)
           [] x.k = "chan" -> x.p = y.p
           [] OTHER -> ~ScalarNe(x, y)

RECURSIVE HoldsUnequalToItself(_)
\* A NaN float or a non-nil function held by v directly: reached through
\* struct fields, array elements and interfaces, across no pointer, map or slice.
HoldsUnequalToItself(v) ==
    CASE v.k = "float" -> v.nan
      [] v.k = "func" -> ~IsNil(v)
      [] v.k = "iface" -> HoldsUnequalToItself(v.e)
      [] v.k = "struct" -> \E i \in DOMAIN v.f : HoldsUnequalToItself(v.f[i])
      [] v.k = "array" -> \E i \in DOMAIN v.e : HoldsUnequalToItself(v.e[i])
      [] OTHER -> FALSE

\* C2 as stated (reflexivity): comparing any acyclic value with itself
\* under the default options never calls the sink.
C2_ReflexiveAny == (Finished /\ a = b) => res.out = <<>>

\* C2, amended: comparing an acyclic value with itself under the default
\* options never calls the sink, provided the value holds no NaN float and
\* no non-nil function directly (reached through struct fields, array
\* elements and interfaces, across no pointer, map or slice).
C2_Reflexive ==
    (Finished /\ a = b /\ ~HoldsUnequalToItself(a)) => res.st = "ok" /\ res.out = <<>>

\* A value compared with itself that reaches a NaN only across a reference,
\* and a record of two slices of one array.
C2_Witness ==
    /\ Finished
    /\ a = b
    /\ res.out = <<>>
    /\ \/ a = SliceV("[]float64", 7, 1)
       \/ a = StructV("S2", <<SliceV("[]int", 5, 1), SliceV("[]int", 5, 2)>>)

\* C3 as stated (completeness): when the inputs are not deeply equal the
\* sink is called at least once.
C3_Complete == (Finished /\ ~DeepEqual(heap, a, b)) => Len(res.out) > 0

\* C5 (shape-mismatch short-circuit): a call of walk on a pair with exactly
\* one side invalid or with two different types calls the sink exactly once
\* and makes no call of walk below it; on a pair with both sides invalid it
\* does neither.
C5_ShapeShortCircuit ==
    Finished =>
        \A i \in DOMAIN res.log :
            LET l == res.log[i]
                absentA == ~IsValid(l.av)
                absentB == ~IsValid(l.bv)
            IN /\ (absentA /\ absentB) => (l.m = l.n /\ l.sub = 0)
               /\ (absentA # absentB) => (l.m = l.n + 1 /\ l.sub = 0)
               /\ (~absentA /\ ~absentB /\ l.av.t # l.bv.t) =>
                      (l.m = l.n + 1 /\ l.sub = 0)

\* A mismatch below the root: an interface item holding an int on one side
\* and a float on the other, reported once.
C5_Witness ==
    /\ Finished
    /\ Len(res.out) = 1
    /\ \E i \in DOMAIN res.log :
          /\ res.log[i].d > 1
          /\ IsValid(res.log[i].av) /\ IsValid(res.log[i].bv)
          /\ res.log[i].av.t # res.log[i].bv.t
          /\ res.log[i].m = res.log[i].n + 1

(***************************************************************************)
(* Two calls of Each in one process.  The maps that newDiffer makes live   *)
(* in one memory (mem), a function from addresses to maps; a differ holds  *)
(* the addresses of its visit tables and of the hook maps of its config.   *)
(* A call is a position (pc), its differ (d), the calls of walk it has     *)
(* still to make (stack, the next one first), the calls of its sink (out), *)
(* its status (st) and the values its transforms have allocated (heap,     *)
(* next).  The two calls advance in any order, one call of walk at a time. *)
(***************************************************************************)
Callers == 1..2

\* The address of the k-th map that make() returns when mem holds m.
Fresh_Global(m, k) == k

Fresh(m, k) == Cardinality(DOMAIN m) + k

\* newDiffer in memory m: four fresh maps, the defaults and the caller's
\* options written into the hook maps.
newDiffer(m, os) ==
    LET c == NewConfig(os)
        d == [cfg |-> [c EXCEPT !.xform = Fresh(m, 3), !.format = Fresh(m, 4)],
              aSeen |-> Fresh(m, 1), bSeen |-> Fresh(m, 2)]
    IN [d |-> d,
        mem |-> MapSet(MapSet(MapSet(MapSet(m, d.aSeen, <<>>), d.bSeen, <<>>),
                              d.cfg.xform, c.xform),
                       d.cfg.format, c.format)]

\* One pending call of walk: the emitter, the pair, xformOk and the depth.
Frame(e, av, bv, xformOk, d) ==
    [e |-> e, av |-> av, bv |-> bv, xformOk |-> xformOk, d |-> d]

NoCall ==
    [pc |-> "new", d |-> [cfg |-> NewConfig(<<>>), aSeen |-> 0, bSeen |-> 0],
     stack |-> <<>>, out |-> <<>>, st |-> "ok", heap |-> <<>>, next |-> 1]

\* The differ of call c as walk sees it: its maps read from memory m.
Session(m, c) ==
    [cfg |-> [c.d.cfg EXCEPT !.xform = m[c.d.cfg.xform],
                             !.format = m[c.d.cfg.format]],
     aSeen |-> m[c.d.aSeen], bSeen |-> m[c.d.bSeen], out |-> c.out,
     st |-> c.st, log |-> <<>>, hooks |-> <<>>, heap |-> c.heap,
     next |-> c.next]

\* Memory and call c after a call of walk that left the differ as s and
\* the calls in stack to make: the visit tables are the maps walk writes.
Back(m, c, s, stack) ==
    [mem |-> MapSet(MapSet(m, c.d.aSeen, s.aSeen), c.d.bSeen, s.bSeen),
     call |-> [c EXCEPT !.out = s.out, !.st = s.st, !.heap = s.heap,
                        !.next = s.next,
                        !.stack = IF s.st = "ok" THEN stack ELSE <<>>,
                        !.pc = IF s.st = "ok" /\ stack # <<>> THEN "walk"
                               ELSE "done"]]

\* The Struct case: the calls of walk for the fields, in declaration order.
Fields(f) ==
    [i \in 1..Len(f.av.f) |->
        Frame(Subf(f.e, f.av.t, PField(FieldNames(f.av.t)[i])),
              f.av.f[i], f.bv.f[i], TRUE, f.d + 1)]

\* differ.walk, one call: the checks, then for a struct, a pointer or an
\* interface the calls of walk it makes are left on the stack; every other
\* pair is walked to its end.
walk(m, c) ==
    LET f == Head(c.stack)
        s == Session(m, c)
        r == Route(s, f.av, f.bv, f.xformOk)
        s1 == Seen(s, f.av, f.bv)
        rest == Tail(c.stack)
    IN CASE f.d > StackLimit -> Back(m, c, Overflow(s), <<>>)
         [] f.d <= StackLimit /\ r = "kind" /\ f.av.k = "struct" ->
              Back(m, c, s1, Fields(f) \o rest)
         [] f.d <= StackLimit /\ r = "kind" /\ f.av.k = "ptr"
              /\ f.av.p # f.bv.p /\ IsNil(f.av) = IsNil(f.bv) ->
              Back(m, c, s1,
                   <<Frame(f.e, c.heap[f.av.p], c.heap[f.bv.p], TRUE, f.d + 1)>>
                       \o rest)
         [] f.d <= StackLimit /\ r = "kind" /\ f.av.k = "iface" ->
              Back(m, c, s1,
                   <<Frame(f.e, f.av.e, f.bv.e, f.xformOk, f.d + 1)>> \o rest)
         [] OTHER ->
              Back(m, c, Checks(s, Set(f.e, f.av, f.bv), f.av, f.bv,
                                f.xformOk, f.d),
                   rest)

\* Whether a call other than i is between its newDiffer and its return.
Others(i) == \E j \in Callers \ {i} : res.calls[j].pc = "walk"

\* Each, up to the first call of walk: newDiffer, then the root pair.
StartEach(i) ==
    /\ pc = "calls"
    /\ res.calls[i].pc = "new"
    /\ LET n == newDiffer(res.mem, opts[i])
       IN res' = [res EXCEPT
                     !.mem = n.mem,
                     !.calls[i] = [@ EXCEPT !.pc = "walk", !.d = n.d,
                                            !.stack = <<Frame(NewEmitter, a[i], b[i], TRUE, 1)>>,
                                            !.heap = heap,
                                            !.next = Len(heap) + 1]]
    /\ UNCHANGED <<pc, heap, a, b, opts, seqA, seqB, script, edits>>

\* One call of walk of call i.
StepEach(i) ==
    /\ pc = "calls"
    /\ res.calls[i].pc = "walk"
    /\ LET w == walk(res.mem, res.calls[i])
       IN res' = [res EXCEPT !.mem = w.mem, !.calls[i] = w.call,
                             !.mixed = @ \/ Others(i)]
    /\ UNCHANGED <<pc, heap, a, b, opts, seqA, seqB, script, edits>>

NextCalls2 == (\E i \in Callers : StartEach(i)) \/ (\E i \in Callers : StepEach(i))

\* The graphs of the two calls: the first call compares the first nodes of
\* the two sides, the second call the second nodes.  Of these, a node of
\* side a links to node 1 or to nothing, a node of side b to the first node
\* of its side, to itself or to nothing; no other node has a link.
CallLinks ==
    {l \in Links : /\ \A i \in NodesA : l[i] \in (IF i <= 2 THEN {0, 1} ELSE {0})
                   /\ \A i \in NodesB :
                         l[i] \in (IF i <= MaxNodes + 2 THEN {0, MaxNodes + 1, i}
                                   ELSE {0})}

InitCalls2 ==
    /\ pc = "calls"
    /\ \E l \in CallLinks, n \in Ns : heap = GraphHeap(l, n, "P")
    /\ a = <<PtrV("*T", 1), PtrV("*T", 2)>>
    /\ b = <<PtrV("*T", MaxNodes + 1), PtrV("*T", MaxNodes + 2)>>
    /\ \E o1 \in {<<>>, <<ZeroFields("T", {"N"})>>},
          o2 \in {<<>>, <<EmitPathOnly>>, <<Format("T", Describe)>>} :
              opts = <<o1, o2>>
    /\ res = [mem |-> <<>>, calls |-> [i \in Callers |-> NoCall], mixed |-> FALSE]
    /\ seqA = <<>> /\ seqB = <<>> /\ script = <<>> /\ edits = <<>>

SpecCalls2 == InitCalls2 /\ [][NextCalls2]_vars

\* The maps that call i owns.
Maps(i) ==
    LET d == res.calls[i].d
    IN {d.aSeen, d.bSeen, d.cfg.xform, d.cfg.format}

\* What call i does when it runs alone.
Alone(i) == each(NewConfig(opts[i]), heap, a[i], b[i])

\* The inputs of the two calls share no node.
Disjoint ==
    (ReachFrom(heap, 1, {}) \cup ReachFrom(heap, MaxNodes + 1, {}))
        \cap (ReachFrom(heap, 2, {}) \cup ReachFrom(heap, MaxNodes + 2, {})) = {}

\* C22 (independent calls): two calls that have made their differs hold
\* four maps each and no map in common, and a call that has returned,
\* however its calls of walk were interleaved with those of the other call,
\* has called its sink exactly as it does when it runs alone, and has left
\* in its visit tables what it leaves when it runs alone.
C22_IndependentCalls ==
    /\ \A i, j \in Callers :
          (i # j /\ res.calls[i].pc # "new" /\ res.calls[j].pc # "new") =>
              (Cardinality(Maps(i)) = 4 /\ Maps(i) \cap Maps(j) = {})
    /\ \A i \in Callers :
          res.calls[i].pc = "done" =>
              LET alone == Alone(i)
              IN <<res.calls[i].out, res.calls[i].st,
                   res.mem[res.calls[i].d.aSeen], res.mem[res.calls[i].d.bSeen]>>
                     = <<alone.out, alone.st, alone.aSeen, alone.bSeen>>

\* Two calls on disjoint graphs, the first with a transform that the
\* second does not have, have run interleaved and returned: the second
\* reported the N fields that the first one's transform hides.
C22_Witness ==
    /\ res.mixed /\ Disjoint
    /\ \A i \in Callers : res.calls[i].pc = "done"
    /\ opts[1] # <<>> /\ opts[2] = <<>>
    /\ res.calls[1].out = <<>>
    /\ Len(res.calls[2].out) > 0
    /\ res.mem[res.calls[1].d.aSeen] # <<>>
    /\ res.mem[res.calls[2].d.aSeen] # <<>>

\* The visit tables of call i, as they are in memory.
ASeen(i) == res.mem[res.calls[i].d.aSeen]
BSeen(i) == res.mem[res.calls[i].d.bSeen]

\* The two tables of call i are mutual inverses.
Inverses(i) ==
    /\ \A x \in DOMAIN ASeen(i) :
          ASeen(i)[x] \in DOMAIN BSeen(i) /\ BSeen(i)[ASeen(i)[x]] = x
    /\ \A y \in DOMAIN BSeen(i) :
          BSeen(i)[y] \in DOMAIN ASeen(i) /\ ASeen(i)[BSeen(i)[y]] = y

\* A step leaves every entry of the tables of call i as it was.
EntriesKept(i) ==
    /\ \A x \in DOMAIN ASeen(i) : x \in DOMAIN ASeen(i)' /\ ASeen(i)'[x] = ASeen(i)[x]
    /\ \A y \in DOMAIN BSeen(i) : y \in DOMAIN BSeen(i)' /\ BSeen(i)'[y] = BSeen(i)[y]

\* C24 (visit tables): in every state of a call between newDiffer and its
\* return, and after it, aSeen[x] = y exactly when bSeen[y] = x, and no
\* call of walk changes or removes an entry that a table holds: a key is
\* entered once.
C24_VisitTables ==
    /\ [](\A i \in Callers : res.calls[i].pc # "new" => Inverses(i))
    /\ [][\A i \in Callers : res.calls[i].pc # "new" => EntriesKept(i)]_vars

\* A call in the middle of its walk has entered a pair and has then met the
\* pointer of side b a second time, with another pointer of side a: it has
\* reported the pair and entered nothing.
C24_Witness ==
    \E i \in Callers :
        /\ res.calls[i].pc = "walk"
        /\ Cardinality(DOMAIN ASeen(i)) = 1
        /\ Cardinality(DOMAIN BSeen(i)) = 1
        /\ \E k \in DOMAIN res.calls[i].out : res.calls[i].out[k].msg = "uneven cycle"

\* A call in the middle of its walk holds two pairs in its tables.
C24_TwoEntries ==
    \E i \in Callers :
        /\ res.calls[i].pc = "walk"
        /\ Cardinality(DOMAIN ASeen(i)) = 2
        /\ Cardinality(DOMAIN BSeen(i)) = 2

(***************************************************************************)
(* Inputs: two values of                                                   *)
(*     type S4 struct { F0, F1, F2 *int; F3 int }                          *)
(* whose pointers are nil or lead to one of two ints of their side: side a *)
(* owns the addresses 1 and 2, side b the addresses 3 and 4.  A pointer    *)
(* may occur in several fields; no value here contains a cycle.            *)
(***************************************************************************)
IntsA == {0, 1, 2}
IntsB == {0, 3, 4}

ShareHeap(x, y) == <<IntV(0), IntV(0), IntV(x), IntV(y)>>

S4(ps, n) ==
    StructV("S4", <<PtrV("*int", ps[1]), PtrV("*int", ps[2]),
                    PtrV("*int", ps[3]), IntV(n)>>)

InitShare ==
    /\ pc = "start"
    /\ \E x, y \in {0, 1} : heap = ShareHeap(x, y)
    /\ \E ps \in [1..3 -> IntsA], n \in {0, 1} : a = S4(ps, n)
    /\ \E ps \in [1..3 -> IntsB], n \in {0, 1} : b = S4(ps, n)
    /\ opts = <<>>
    /\ res = NoRes
    /\ seqA = <<>> /\ seqB = <<>> /\ script = <<>> /\ edits = <<>>

SpecShare == InitShare /\ [][Next]_vars

\* The reports of a run that say "uneven cycle".
Uneven == {i \in DOMAIN res.out : res.out[i].msg = "uneven cycle"}

\* The reports of a run at field i of the root.
AtField(i) ==
    {k \in DOMAIN res.out : res.out[k].path = <<PField(FieldNames(a.t)[i])>>}

\* C25 (no cycle, no "uneven cycle"): a run on two values without a cycle,
\* as all values of this family are, with pointers shared between fields
\* or not, never reports "uneven cycle".
C25_NoFalseCycle == Finished => Uneven = {}

\* The same for inputs in which no pointer occurs twice on a side.
C25_NoSharing ==
    (Finished /\ \A i, j \in 1..3 :
                    i # j => /\ (a.f[i].p # a.f[j].p \/ IsNil(a.f[i]))
                             /\ (b.f[i].p # b.f[j].p \/ IsNil(b.f[i])))
        => Uneven = {}

MaxBytes == 4      \* bytes handed to the indent writer in a run

\* indent.New(w, prefix)
New(prefix) ==
    [prefix |-> prefix, bol |-> TRUE, sink |-> <<>>, calls |-> 0,
     written |-> 0, err |-> FALSE, bolAtFail |-> TRUE]

\* w.w.Write(q) and io.WriteString(w.w, q): n is the count returned.
Below(w, q, fail, short) ==
    LET failing == w.calls + 1 = fail
        n == IF failing /\ short < Len(q) THEN short ELSE Len(q)
    IN [w |-> [w EXCEPT !.calls = @ + 1, !.sink = @ \o SubSeq(q, 1, n),
                        !.err = failing,
                        !.bolAtFail = IF failing THEN w.bol ELSE @],
        n |-> n]

\* bytes.IndexByte(p, '\n'), counted from 1; 0 when there is none.
IndexByte(p) ==
    IF \E i \in DOMAIN p : p[i] = "\n"
    THEN CHOOSE i \in DOMAIN p : p[i] = "\n" /\ \A j \in 1..(i - 1) : p[j] # "\n"
    ELSE 0

RECURSIVE WriteLoop(_, _, _, _), WriteData(_, _, _, _)
\* writer.Write: the loop, from its test to the write of the prefix.
WriteLoop(w, p, fail, short) ==
    IF p = <<>> THEN w
    ELSE IF w.bol
         THEN LET r == Below(w, w.prefix, fail, short)
              IN IF r.w.err THEN [r.w EXCEPT !.bol = FALSE]
                 ELSE WriteData([r.w EXCEPT !.bol = FALSE], p, fail, short)
    ELSE WriteData(w, p, fail, short)

\* writer.Write: the rest of the loop body, the write of the data up to and
\* with the next newline.
WriteData(w, p, fail, short) ==
    LET i == IndexByte(p)
        r == Below(w, IF i = 0 THEN p ELSE SubSeq(p, 1, i), fail, short)
        w1 == [r.w EXCEPT !.written = @ + r.n]
    IN IF i = 0 \/ w1.err THEN w1
       ELSE WriteLoop([w1 EXCEPT !.bol = TRUE], SubSeq(p, i + 1, Len(p)), fail, short)

\* A Write that takes every call as the first at the beginning of a line.
indentWrite_BolPerCall(w, p, fail, short) ==
    WriteLoop([w EXCEPT !.written = 0, !.err = FALSE, !.bol = TRUE,
                        !.calls = 0], p, fail, short)

\* writer.Write(p), with the calls of the writer below counted from 1.
indentWrite(w, p, fail, short) ==
    WriteLoop([w EXCEPT !.written = 0, !.err = FALSE, !.calls = 0], p, fail, short)

\* The caller hands the writer the data (a), from the byte after those
\* taken so far (seqA holds them), in pieces of any length; after a Write
\* that failed it goes on behind the bytes that Write reports as written.
\* edits keeps one entry per failed Write.
Piece(k) == SubSeq(a, Len(seqA) + 1, Len(seqA) + k)

IndentWrite ==
    /\ pc = "indent"
    /\ \E k \in 0..(Len(a) - Len(seqA)) :
           /\ res' = indentWrite(res, Piece(k), 0, 0)
           /\ seqA' = seqA \o Piece(k)
    /\ UNCHANGED <<pc, heap, a, b, opts, seqB, script, edits>>

IndentWriteFails ==
    /\ pc = "indent"
    /\ edits = <<>>
    /\ \E k \in 1..(Len(a) - Len(seqA)), fail \in 1..(2 * MaxBytes), short \in {0, 1} :
           LET w == indentWrite(res, Piece(k), fail, short)
           IN /\ w.err
              /\ res' = w
              /\ seqA' = seqA \o Piece(w.written)
              /\ edits' = Append(edits, fail)
    /\ UNCHANGED <<pc, heap, a, b, opts, seqB, script>>

NextIndent == IndentWrite \/ IndentWriteFails

Data == UNION {[1..n -> {"b", "\n"}] : n \in 0..MaxBytes}

InitIndent ==
    /\ pc = "indent"
    /\ heap = <<>>
    /\ a \in Data
    /\ b \in {<<"a">>, <<"a", "a", "a">>}
    /\ opts = <<>>
    /\ res = New(b)
    /\ seqA = <<>> /\ seqB = <<>> /\ script = <<>> /\ edits = <<>>

SpecIndent == InitIndent /\ [][NextIndent]_vars

RECURSIVE Indented(_, _)
\* The bytes s with the prefix before the first byte of every line.
Indented(prefix, s) ==
    IF s = <<>> THEN <<>>
    ELSE LET n == Len(s)
             first == n = 1 \/ s[n - 1] = "\n"
         IN Indented(prefix, SubSeq(s, 1, n - 1))
                \o (IF first THEN prefix ELSE <<>>) \o <<s[n]>>

\* C23 (any split, one output): as long as no write has failed, whatever
\* the pieces were in which the bytes taken so far were handed to Write,
\* the writer below has received those bytes with the prefix before the
\* first byte of every line, the line of a lone newline included, and
\* nothing after a final newline; bol says whether the next byte starts a
\* line.
C23_SplitInvariant ==
    edits = <<>> =>
        /\ res.sink = Indented(b, seqA)
        /\ res.bol = (seqA = <<>> \/ seqA[Len(seqA)] = "\n")

\* TestIndentMultiCallPart with a shorter line: "b\nb" handed over as "b"
\* and "\nb", second Write done.
C23_Witness ==
    /\ a = <<"b", "\n", "b">> /\ b = <<"a", "a", "a">>
    /\ seqA = a /\ edits = <<>>
    /\ res.written = 2
    /\ res.sink = <<"a", "a", "a", "b", "\n", "a", "a", "a", "b">>

\* C30 (a failed write keeps bol): after a Write that returned an error,
\* bol is what it was just before the call of the writer below that
\* failed.
C30_FailureKeepsBol == res.err => res.bol = res.bolAtFail

\* A line without its prefix: the write of the prefix of the first line
\* failed, and the Write after it handed the line on alone.
C30_LostPrefix ==
    /\ edits = <<1>> /\ ~res.err
    /\ a = <<"b", "\n">> /\ seqA = a
    /\ res.sink = a

(***************************************************************************)
(* The choice of the text diff.  Inputs: strings of 1..MaxPieces runs of   *)
(* "a" put together with new lines or with spaces, the runs as long as a   *)
(* threshold of textDiff, the last one that long or one byte longer; and   *)
(* the empty string and two runs about ShortLen.                           *)
(***************************************************************************)
MaxPieces == 4     \* lines or words per string in the inputs of the choice

\* n runs of l bytes, the last of l + d bytes, with sep between them.
Shape(n, l, d, sep) ==
    [i \in 1..(n * (l + 1) - 1 + d) |->
        IF i % (l + 1) = 0 /\ i < n * (l + 1) THEN sep ELSE "a"]

Shapes ==
    {Shape(n, l, d, sep) : n \in 1..MaxPieces, l \in {1, WordAvg, LineAvg},
                           d \in {0, 1}, sep \in {"\n", " "}}
        \cup {<<>>, Rep(ShortLen - 1, "a"), Rep(ShortLen, "a")}

\* differ.textDiff: which of its reports it makes for the strings x and y.
Granularity(c, x, y) ==
    IF c.level = "full" THEN "full"
    ELSE IF textCheck(x, "\n", LineMin, LineAvg) /\ textCheck(y, "\n", LineMin, LineAvg)
         THEN "lines"
    ELSE IF (Len(x) < ShortLen /\ Len(y) < ShortLen) \/ x = <<>> \/ y = <<>>
         THEN "short"
    ELSE IF textCheck(x, " ", WordMin, WordAvg) /\ textCheck(y, " ", WordMin, WordAvg)
         THEN "words"
    ELSE "runes"

\* textDiff up to its choice, on the strings a and b.
TextDiff ==
    /\ pc = "start"
    /\ a.v # b.v
    /\ res' = [cfg |-> NewConfig(opts), gran |-> Granularity(NewConfig(opts), a.v, b.v)]
    /\ pc' = "chosen"
    /\ UNCHANGED <<heap, a, b, opts, seqA, seqB, script, edits>>

NextGran == TextDiff

InitGran ==
    /\ pc = "start"
    /\ heap = <<>>
    /\ a \in {StringV(x) : x \in Shapes}
    /\ b \in {StringV(x) : x \in Shapes}
    /\ opts \in {<<>>, <<EmitPathOnly>>, <<EmitFull>>}
    /\ res = NoRes
    /\ seqA = <<>> /\ seqB = <<>> /\ script = <<>> /\ edits = <<>>

SpecGran == InitGran /\ [][NextGran]_vars

\* x falls into at least nmin pieces at sep, and the pieces, taken without
\* sep, are amax bytes long or shorter on average.
Pieces(x, sep, nmin, amax) ==
    LET n == Cardinality({i \in DOMAIN x : x[i] = sep}) + 1
        bytes == Cardinality({i \in DOMAIN x : x[i] # sep})
    IN n >= nmin /\ bytes <= amax * n

\* The first rule that matches.
FirstRule(x, y) ==
    IF Pieces(x, "\n", 2, 72) /\ Pieces(y, "\n", 2, 72) THEN "lines"
    ELSE IF (Len(x) < 20 /\ Len(y) < 20) \/ x = <<>> \/ y = <<>> THEN "short"
    ELSE IF Pieces(x, " ", 3, 10) /\ Pieces(y, " ", 3, 10) THEN "words"
    ELSE "runes"

\* C26 (granularity): for two different valid strings, at the levels that
\* diff text, textDiff reports by line exactly when both strings have at
\* least 2 lines of 72 bytes or less on average; else the two whole strings
\* when both are shorter than 20 bytes or one is empty; else by word when
\* both have at least 3 words of 10 bytes or less on average; else by rune.
C26_Granularity ==
    (pc = "chosen" /\ res.cfg.level # "full"
       /\ ValidString(a.v) /\ ValidString(b.v))
        => res.gran = FirstRule(a.v, b.v)

\* Three words of 10 bytes against four: 32 and 43 bytes, by word.
C26_Witness ==
    /\ pc = "chosen" /\ res.cfg.level = "auto"
    /\ a.v = Shape(3, 10, 0, " ") /\ b.v = Shape(4, 10, 0, " ")
    /\ Len(a.v) = 32
    /\ res.gran = "words"

\* Two lines of 72 bytes against a line of 72 and one of 73: by rune.
C26_OverLong ==
    /\ pc = "chosen" /\ res.cfg.level = "auto"
    /\ a.v = Shape(2, 72, 0, "\n") /\ b.v = Shape(2, 72, 1, "\n")
    /\ res.gran = "runes"

(***************************************************************************)
(* Inputs: texts of two or three lines, some with a space or a tab in them.*)
(***************************************************************************)
SpaceLines == {<<"x">>, <<"x", " ">>, <<"x", "\t">>, <<" ", "x">>, <<"y">>}

SpaceTexts == {Join(ls) : ls \in UNION {[1..n -> SpaceLines] : n \in {2, 3}}}

InitSpaces ==
    /\ pc = "start"
    /\ heap = <<>>
    /\ a \in {StringV(x) : x \in SpaceTexts}
    /\ b \in {StringV(x) : x \in SpaceTexts}
    /\ opts = <<>>
    /\ res = NoRes
    /\ seqA = <<>> /\ seqB = <<>> /\ script = <<>> /\ edits = <<>>

SpecSpaces == InitSpaces /\ [][Next]_vars

\* The line of the input that a line of a hunk shows.
Shows(l) ==
    IF l.op = "+" THEN Split(b.v, "\n")[l.b + 1] ELSE Split(a.v, "\n")[l.a + 1]

\* A line without its spaces and tabs.
NoSpace(line) == SelectSeq(line, LAMBDA ch : ch # " " /\ ch # "\t")

\* The edit has as many lines on one side as on the other, and they are
\* the same, one by one, without their spaces and tabs.
SpaceOnly(ed) ==
    /\ ed.A1 - ed.A0 = ed.B1 - ed.B0
    /\ \A i \in 1..(ed.A1 - ed.A0) :
          NoSpace(Split(a.v, "\n")[ed.A0 + i]) = NoSpace(Split(b.v, "\n")[ed.B0 + i])

\* The edits that hold the line l of a hunk.
EditsOf(l) ==
    LET eds == DiffSlice(Split(a.v, "\n"), Split(b.v, "\n"))
    IN {eds[i] : i \in {i \in DOMAIN eds :
                          IF l.op = "-" THEN eds[i].A0 <= l.a /\ l.a < eds[i].A1
                          ELSE eds[i].B0 <= l.b /\ l.b < eds[i].B1}}

\* The '-' and '+' lines are written as they are in the input unless their
\* edit changes spaces and tabs only.
MarkedLines ==
    \A i \in DOMAIN Hunks : \A j \in DOMAIN Hunks[i].lines :
        LET l == Hunks[i].lines[j]
        IN (l.op # " " /\ l.text # Shows(l)) => \A ed \in EditsOf(l) : SpaceOnly(ed)

\* The lines marked ' ' are written as they are in the input.
ContextLines ==
    \A i \in DOMAIN Hunks : \A j \in DOMAIN Hunks[i].lines :
        LET l == Hunks[i].lines[j]
        IN l.op = " " => l.text = Shows(l)

\* C27 (white space made visible): in a unified diff, a line is written
\* with its spaces and tabs made visible only if it is a '-' or '+' line of
\* an edit that changes spaces and tabs alone; the lines marked ' ' are
\* written as they are.
C27_VisibleSpaceOnlyInEdits == LineDiff => (MarkedLines /\ ContextLines)

\* The half of C27 about the '-' and '+' lines.
C27_MarkedLines == LineDiff => MarkedLines

\* The line "x " before an edit of "x " into "x\t" is written with a dot.
C27_DottedContext ==
    /\ LineDiff
    /\ a.v = <<"x", " ", "\n", "x", " ">> /\ b.v = <<"x", " ", "\n", "x", "\t">>
    /\ Hunks[1].lines[1].op = " "
    /\ Hunks[1].lines[1].text = <<"x", "U+00B7">>

\* The transform registered for the type of a, applied to v.
Transformed(v) == ApplyXform(res.cfg.xform[a.t], v, NoRes).v

\* The inputs have one type, a transform whose result holds no pointer is
\* registered for it, and the transformed values are equal where the
\* inputs are not, or unequal where the inputs are equal.
Misleading ==
    /\ a.t = b.t
    /\ a.t \in DOMAIN res.cfg.xform
    /\ res.cfg.xform[a.t].fn \in {"TimeEqual", "ZeroFields", "KeepFields", "Const0"}
    /\ (Transformed(a) = Transformed(b)) # (a = b)

\* C29 (impure transform): a run on a pair with a registered transform
\* whose transformed values are equal while the pair is not, or the other
\* way round, reports "transform is impure".
C29_ImpureWarning ==
    (Finished /\ res.st = "ok" /\ Misleading) =>
        \E k \in DOMAIN res.out : res.out[k].msg = "warning: %s transform is impure"

\* No run reports "transform is impure".
C29_NoWarning ==
    Finished => \A k \in DOMAIN res.out : res.out[k].msg # "warning: %s transform is impure"

\* 0 against 1 under a transform of int that returns 0: no report at all.
C29_Silent ==
    /\ Finished /\ Misleading
    /\ a = IntV(0) /\ b = IntV(1)
    /\ opts = <<Transform("int", Fn("Const0", {}))>>
    /\ res.out = <<>>

=============================================================================
